---- MODULE Spec2Model ----
(***************************************************************************)
(* Model of the video-variation dashboard: the two engine adapters         *)
(* (utils/videoProcessor.ts, utils/videoProcessorEnhanced.ts), the three   *)
(* processor panels that drive them and the parameter controls.            *)
(*                                                                         *)
(* The browser runs one event loop.  Every action below is one macrotask:  *)
(* a user event, or the settling of one awaited operation together with    *)
(* the synchronous code (and promise continuations) that runs until the    *)
(* next await on a pending operation.                                      *)
(***************************************************************************)
EXTENDS Integers, Sequences, FiniteSets, TLC

(***************************************************************************)
(* Bounds of the model                                                     *)
(***************************************************************************)
\* number of times a processor panel is mounted (first render + tab switches)
MaxMounts == 3
\* number of generateVariations calls made on the adapters
MaxJobs == 2
\* number of processQueue runs and simulated processings started
MaxRuns == 2
\* largest value typed into the "Number of Variations" field
MaxCount == 1
\* progress events one engine exec emits
MaxProgress == 1
\* length of the batch queue
MaxQueue == 2
\* number of parameter-control updates
MaxEdits == 2
\* uploads to the batch queue
MaxUploads == 2
\* enabled parameters of a parameters object given to a filter builder
MaxEnabled == 2

(***************************************************************************)
(* Program constants                                                       *)
(***************************************************************************)
\* useState(3) of numberOfVariations in the three panels
DefaultVariations == 3
\* videoQuality: 80 in VideoSpoofer's useState
DefaultQuality == 80
\* progressCounter % 10 === 0 in VideoProcessor.processVideo
ThrottleEvery == 10
\* steps of one simulated variation in SingleVideoProcessor
SingleSteps == 100
\* steps per variation of the simulated batch processing
BatchStepsPerVariation == 20
\* randomPixelSize: baseHeight = 720 + Math.floor(Math.random() * 360)
BaseHeightMin == 720
BaseHeightSpan == 360
\* crf = CrfMax - Math.floor(videoQuality * 0.51)
CrfMax == 51
\* bits of the significand of a JavaScript number
Significand == 53
\* bits of one limb of a significand in this module
LimbBits == 15

Adapters == {"simple", "enhanced"}
Tabs == {"enhanced", "single", "batch"}

\* <Tabs defaultValue="enhanced">
DefaultTab == "enhanced"

\* the adapter singleton a panel imports
AdapterOf(tab) == IF tab = "enhanced" THEN "enhanced" ELSE "simple"

\* files the user can pick; type is the MIME type, size the byte size
Files == {"a.mp4", "n.txt"}
\* a MIME type "major/minor" is kept as the pair <<major, minor>>
FileType(f) == IF f = "n.txt" THEN <<"text", "plain">> ELSE <<"video", "mp4">>
FileSize(f) == IF f = "a.mp4" THEN 5 ELSE 1

\* a type test that takes every file
IsVideoAlways(f) == TRUE

\* file.type.startsWith('video/')
IsVideo(f) == FileType(f)[1] = "video"


(***************************************************************************)
(* Parameter model.  VideoSpoofer keeps one parameters object in React     *)
(* state.  Its top level holds the scalar videoQuality and references to   *)
(* one nested object per parameter; numbers are kept in thousandths.       *)
(***************************************************************************)
RangedNames == {"videoBitrate", "audioBitrate", "framerate", "saturation",
                "contrast", "brightness", "gamma", "vignette", "noise",
                "waveformShift", "pixelShift", "speed", "zoom", "volume",
                "rotation", "trim"}
BooleanNames == {"flipHorizontally", "randomPixelSize"}
ParamNames == RangedNames \cup BooleanNames

Rng(mn, mx) == [enabled |-> FALSE, min |-> mn, max |-> mx]

\* the nested objects of useState({...}) in VideoSpoofer
DefaultNested ==
    [p \in ParamNames |->
        CASE p = "videoBitrate"  -> Rng(1000000, 15000000)
          [] p = "audioBitrate"  -> Rng(96000, 128000)
          [] p = "framerate"     -> Rng(24000, 60000)
          [] p = "saturation"    -> Rng(1000, 1300)
          [] p = "contrast"      -> Rng(500, 1500)
          [] p = "brightness"    -> Rng(-300, 300)
          [] p = "gamma"         -> Rng(700, 1300)
          [] p = "vignette"      -> Rng(0, 1000)
          [] p = "noise"         -> Rng(0, 1000)
          [] p = "waveformShift" -> Rng(0, 1000)
          [] p = "pixelShift"    -> Rng(0, 1000)
          [] p = "speed"         -> Rng(900, 1200)
          [] p = "zoom"          -> Rng(0, 2000)
          [] p = "volume"        -> Rng(900, 1200)
          [] p = "rotation"      -> Rng(-10000, 10000)
          [] p = "trim"          -> Rng(200, 1000)
          [] OTHER               -> [enabled |-> FALSE]]

VARIABLES
    activeTab,          \* the mounted TabsContent, "none" before the first render
    mountGen,           \* number of panel mounts so far; identifies a panel instance
    panel,              \* React state of the mounted processor panel
    ffmpeg,             \* adapter -> this.ffmpeg: 0 is null, else an engine instance
    isLoaded,           \* adapter -> this.isLoaded
    supportsWebCodecs,  \* VideoProcessorEnhanced.supportsWebCodecs
    engines,            \* adapter -> the FFmpeg instances created so far
    inits,              \* initialize() calls suspended in ffmpeg.load
    parameters,         \* top level of the current parameters object
    nested,             \* the nested {enabled, min, max} objects on the heap
    edits,              \* number of parameter-control updates so far
    jobs,               \* the generateVariations calls made so far
    calls,              \* the processVideo calls suspended in an await
    runs,               \* the processQueue runs and simulated processings so far
    clock,              \* Date.now() as seen by the batch upload handler
                        \* (it advances between two upload events)
    refused,            \* the panels that have answered a file selection with
                        \* the "Invalid file type" / "No valid video files" toast
    built,              \* the ffmpeg command last built from the parameters
    sampled,            \* the last getRandomValue call: range, draw and result
    objectUrls          \* the object URLs made by URL.createObjectURL and not
                        \* yet revoked by URL.revokeObjectURL

vars == <<activeTab, mountGen, panel, ffmpeg, isLoaded, supportsWebCodecs,
          engines, inits, parameters, nested, edits, jobs, calls, runs,
          clock, refused, built, sampled, objectUrls>>

adapterVars == <<ffmpeg, isLoaded, supportsWebCodecs, engines, inits>>
paramVars == <<parameters, nested, edits, built, sampled>>
workVars == <<jobs, calls, runs, objectUrls>>
uploadVars == <<clock, refused>>

(***************************************************************************)
(* Engine instances.  An FFmpeg object is loaded or not, has the list of   *)
(* 'progress' listeners registered with on(), and a file system.           *)
(***************************************************************************)
NewEngine == [loaded |-> FALSE, listeners |-> <<>>, fs |-> {}]

\* a capability set that reports the engine as soon as an instance exists
CapabilitiesOfInstance ==
    [ffmpeg |-> ffmpeg["enhanced"] # 0, webcodecs |-> supportsWebCodecs, canvas |-> TRUE]

\* get capabilities() of the enhanced adapter
Capabilities ==
    [ffmpeg |-> isLoaded["enhanced"], webcodecs |-> supportsWebCodecs, canvas |-> TRUE]

\* initialize() without its guard
InitializeNeverReturnsEarly(a) == FALSE

\* the guard at the head of initialize(): if (this.isLoaded) return
InitializeReturnsEarly(a) == isLoaded[a]

(***************************************************************************)
(* React state of a freshly mounted panel                                  *)
(***************************************************************************)
EnhancedPanelInit ==
    [uploadedFile |-> "", processing |-> FALSE, progress |-> <<0, 1>>,
     currentVariation |-> 0, results |-> <<>>,
     numberOfVariations |-> DefaultVariations,
     capabilities |-> [ffmpeg |-> FALSE, webcodecs |-> FALSE, canvas |-> TRUE],
     initializationStatus |-> "idle"]

SinglePanelInit ==
    [uploadedFile |-> "", processing |-> FALSE, progress |-> <<0, 1>>,
     currentVariation |-> 0, variations |-> <<>>,
     numberOfVariations |-> DefaultVariations, ffmpegLoaded |-> FALSE]

BatchPanelInit ==
    [queue |-> <<>>, processing |-> FALSE,
     numberOfVariations |-> DefaultVariations, ffmpegLoaded |-> FALSE]

PanelInit(tab) ==
    CASE tab = "enhanced" -> EnhancedPanelInit
      [] tab = "single"   -> SinglePanelInit
      [] OTHER            -> BatchPanelInit

\* the panel state once the awaited initialize() of the mount effect resolved
PanelAfterInitOk(tab, p, loadedNow) ==
    IF tab = "enhanced"
    THEN [p EXCEPT !.capabilities =
                       [ffmpeg |-> loadedNow, webcodecs |-> supportsWebCodecs,
                        canvas |-> TRUE],
                   !.initializationStatus = "success"]
    ELSE [p EXCEPT !.ffmpegLoaded = TRUE]

\* the panel state once the awaited initialize() rejected (the catch branch)
PanelAfterInitFail(tab, p) ==
    IF tab = "enhanced"
    THEN [p EXCEPT !.capabilities = Capabilities,
                   !.initializationStatus = "failed"]
    ELSE p

(***************************************************************************)
(* Mounting a panel runs its useEffect, which calls initialize() on the    *)
(* adapter singleton.  initialize() past its guard creates a new FFmpeg,   *)
(* stores it in this.ffmpeg and suspends in load().                        *)
(***************************************************************************)
MountPanel(tab) ==
    LET a == AdapterOf(tab)
        gen == mountGen + 1
        p0 == IF tab = "enhanced"
              THEN [EnhancedPanelInit EXCEPT !.initializationStatus = "loading"]
              ELSE PanelInit(tab)
    IN /\ mountGen < MaxMounts
       /\ activeTab' = tab
       /\ mountGen' = gen
       /\ IF InitializeReturnsEarly(a)
          THEN /\ panel' = PanelAfterInitOk(tab, p0, isLoaded[a])
               /\ UNCHANGED <<ffmpeg, engines, inits>>
          ELSE /\ engines' = [engines EXCEPT ![a] = Append(@, NewEngine)]
               /\ ffmpeg' = [ffmpeg EXCEPT ![a] = Len(engines[a]) + 1]
               /\ inits' = inits \cup
                     {[adapter |-> a, inst |-> Len(engines[a]) + 1, mount |-> gen]}
               /\ panel' = p0
       /\ UNCHANGED <<isLoaded, supportsWebCodecs, paramVars, workVars, uploadVars>>

\* first render of the page: the default tab's panel mounts
FirstRender ==
    /\ activeTab = "none"
    /\ MountPanel(DefaultTab)

\* the user selects another tab: the shown panel unmounts, the chosen one mounts
SelectTab(tab) ==
    /\ activeTab # "none"
    /\ tab # activeTab
    /\ MountPanel(tab)

\* ffmpeg.load() of a suspended initialize() resolves
InitializeResolves(c) ==
    /\ c \in inits
    /\ inits' = inits \ {c}
    /\ engines' = [engines EXCEPT ![c.adapter][c.inst].loaded = TRUE]
    /\ isLoaded' = [isLoaded EXCEPT ![c.adapter] = TRUE]
    /\ IF c.mount = mountGen
       THEN panel' = PanelAfterInitOk(activeTab, panel, TRUE)
       ELSE UNCHANGED panel
    /\ UNCHANGED <<activeTab, mountGen, ffmpeg, supportsWebCodecs, paramVars,
                   workVars, uploadVars>>

\* ffmpeg.load() (or a toBlobURL fetch) of a suspended initialize() rejects
InitializeRejects(c) ==
    /\ c \in inits
    /\ inits' = inits \ {c}
    /\ IF c.mount = mountGen
       THEN panel' = PanelAfterInitFail(activeTab, panel)
       ELSE UNCHANGED panel
    /\ UNCHANGED <<activeTab, mountGen, ffmpeg, isLoaded, supportsWebCodecs,
                   engines, paramVars, workVars, uploadVars>>

(***************************************************************************)
(* Parameter controls.  updateParameter copies only the top level of the   *)
(* parameters object ({...parameters}) and then assigns through the key    *)
(* path: a one-key path writes the copy, a two-key path writes the nested  *)
(* object, which the copy shares with every earlier parameters object.     *)
(***************************************************************************)
UpdateTopLevel(keys, value) ==
    IF Len(keys) = 1 THEN [parameters EXCEPT ![keys[1]] = value] ELSE parameters

UpdateNested(keys, value) ==
    IF Len(keys) = 2 THEN [nested EXCEPT ![keys[1]][keys[2]] = value] ELSE nested

\* the updates made in this model: the quality slider, the switch of a
\* parameter, and the min slider of an enabled ranged parameter
EditedParams == {"saturation"}
QualityValues == {50}
MinValues == {1200}

\* updateParameter(path, value), keys being path.split('.')
UpdateParameter(keys, value) ==
    /\ activeTab # "none"
    /\ edits < MaxEdits
    /\ parameters' = UpdateTopLevel(keys, value)
    /\ nested' = UpdateNested(keys, value)
    /\ edits' = edits + 1
    /\ UNCHANGED <<activeTab, mountGen, panel, adapterVars, workVars, uploadVars, built, sampled>>

\* the Base Quality slider
QualitySlider(value) == UpdateParameter(<<"videoQuality">>, value)

\* the Switch of a parameter: onCheckedChange(checked)
ParameterSwitch(p) == UpdateParameter(<<p, "enabled">>, ~nested[p].enabled)

\* the Min Value slider, rendered while the parameter is enabled
MinSlider(p, value) ==
    /\ nested[p].enabled
    /\ UpdateParameter(<<p, "min">>, value)


(***************************************************************************)
(* JavaScript numbers.  getRandomValue computes in IEEE-754 binary64: the  *)
(* result of -, * and + is the exact result rounded to a 53-bit            *)
(* significand, ties to even.  A non-negative number is kept as m * 2^e,   *)
(* m being a natural written in limbs of LimbBits bits, lowest first, and  *)
(* odd unless the number is 0.  Subnormals and overflow are out of the     *)
(* range used here.  Both adapters compute every sampled value this way.   *)
(***************************************************************************)
Base == 2 ^ LimbBits

RECURSIVE Limbs(_)
Limbs(n) == IF n = 0 THEN <<>> ELSE <<n % Base>> \o Limbs(n \div Base)

RECURSIVE TrimHigh(_)
TrimHigh(a) ==
    IF a = <<>> \/ a[Len(a)] # 0 THEN a ELSE TrimHigh(SubSeq(a, 1, Len(a) - 1))

LimbAt(a, i) == IF i <= Len(a) THEN a[i] ELSE 0

RECURSIVE AddFrom(_, _, _, _)
AddFrom(a, b, i, carry) ==
    IF i > Len(a) /\ i > Len(b)
    THEN IF carry = 1 THEN <<1>> ELSE <<>>
    ELSE LET s == LimbAt(a, i) + LimbAt(b, i) + carry
         IN <<s % Base>> \o AddFrom(a, b, i + 1, s \div Base)

BigAdd(a, b) == AddFrom(a, b, 1, 0)

\* a - b for a >= b
RECURSIVE SubFrom(_, _, _, _)
SubFrom(a, b, i, borrow) ==
    IF i > Len(a) THEN <<>>
    ELSE LET d == LimbAt(a, i) - LimbAt(b, i) - borrow
         IN <<d % Base>> \o SubFrom(a, b, i + 1, IF d < 0 THEN 1 ELSE 0)

BigSub(a, b) == TrimHigh(SubFrom(a, b, 1, 0))

\* a * k for a limb k
RECURSIVE MulSmallFrom(_, _, _, _)
MulSmallFrom(a, k, i, carry) ==
    IF i > Len(a)
    THEN IF carry > 0 THEN <<carry>> ELSE <<>>
    ELSE LET p == a[i] * k + carry
         IN <<p % Base>> \o MulSmallFrom(a, k, i + 1, p \div Base)

MulSmall(a, k) == TrimHigh(MulSmallFrom(a, k, 1, 0))

ShiftLimbs(a, n) == IF a = <<>> THEN a ELSE [i \in 1 .. n |-> 0] \o a

RECURSIVE BigMul(_, _)
BigMul(a, b) ==
    IF a = <<>> THEN <<>>
    ELSE BigAdd(MulSmall(b, a[1]), ShiftLimbs(BigMul(Tail(a), b), 1))

\* a * 2^k and the floor of a / 2^k
ShiftLeft(a, k) == ShiftLimbs(MulSmall(a, 2 ^ (k % LimbBits)), k \div LimbBits)

ShiftRight(a, k) ==
    LET rest == SubSeq(a, k \div LimbBits + 1, Len(a))
        t == k % LimbBits
    IN TrimHigh([i \in 1 .. Len(rest) |->
                    rest[i] \div 2 ^ t
                        + (LimbAt(rest, i + 1) % 2 ^ t) * 2 ^ (LimbBits - t)])

\* bit i of a, bit 1 being the lowest
BitOf(a, i) ==
    (LimbAt(a, (i - 1) \div LimbBits + 1) \div 2 ^ ((i - 1) % LimbBits)) % 2

RECURSIVE SmallBitLen(_)
SmallBitLen(n) == IF n = 0 THEN 0 ELSE 1 + SmallBitLen(n \div 2)

BitLen(a) ==
    IF a = <<>> THEN 0 ELSE (Len(a) - 1) * LimbBits + SmallBitLen(a[Len(a)])

\* a < b, compared from the highest limb down
RECURSIVE LessFrom(_, _, _)
LessFrom(a, b, i) ==
    IF i = 0 THEN FALSE
    ELSE IF a[i] # b[i] THEN a[i] < b[i]
    ELSE LessFrom(a, b, i - 1)

BigLess(a, b) ==
    IF Len(a) # Len(b) THEN Len(a) < Len(b) ELSE LessFrom(a, b, Len(a))

\* the number of low zero bits of a limb n > 0, and of a > 0
RECURSIVE SmallLowZeros(_)
SmallLowZeros(n) == IF n % 2 = 1 THEN 0 ELSE 1 + SmallLowZeros(n \div 2)

RECURSIVE LowZeros(_)
LowZeros(a) ==
    IF a[1] # 0 THEN SmallLowZeros(a[1]) ELSE LimbBits + LowZeros(Tail(a))

\* m * 2^e with the low zero bits of m moved into e
Canon(m, e) ==
    IF m = <<>> THEN [m |-> <<>>, e |-> 0]
    ELSE LET zeros == LowZeros(m)
         IN [m |-> ShiftRight(m, zeros), e |-> e + zeros]

\* the number n * 2^e for a natural n
Num(n, e) == Canon(Limbs(n), e)

\* 1 - 2^(-k), the largest number below 1 with k fraction bits
BelowOne(k) == [m |-> BigSub(ShiftLeft(<<1>>, k), <<1>>), e |-> 0 - k]

\* round to nearest, ties to even, to a significand of Significand bits
RoundNearestEven(x) ==
    IF BitLen(x.m) <= Significand THEN x
    ELSE LET s == BitLen(x.m) - Significand
             kept == ShiftRight(x.m, s)
             sticky == \E i \in 1 .. s - 1 : BitOf(x.m, i) = 1
             up == BitOf(x.m, s) = 1 /\ (sticky \/ BitOf(kept, 1) = 1)
         IN Canon(IF up THEN BigAdd(kept, <<1>>) ELSE kept, x.e + s)

\* both significands over the smaller exponent
Aligned(x, y) ==
    LET e == IF x.m = <<>> THEN y.e
             ELSE IF y.m = <<>> THEN x.e
             ELSE IF x.e < y.e THEN x.e ELSE y.e
    IN [a |-> IF x.m = <<>> THEN <<>> ELSE ShiftLeft(x.m, x.e - e),
        b |-> IF y.m = <<>> THEN <<>> ELSE ShiftLeft(y.m, y.e - e),
        e |-> e]

NumLess(x, y) == LET al == Aligned(x, y) IN BigLess(al.a, al.b)

\* x + y, x - y (for x >= y) and x * y of JavaScript
NumAdd(x, y) ==
    LET al == Aligned(x, y) IN RoundNearestEven(Canon(BigAdd(al.a, al.b), al.e))

NumSub(x, y) ==
    LET al == Aligned(x, y) IN RoundNearestEven(Canon(BigSub(al.a, al.b), al.e))

NumMul(x, y) == RoundNearestEven(Canon(BigMul(x.m, y.m), x.e + y.e))

\* a \div d and a % d for a limb d > 0, from the highest limb down
RECURSIVE DivSmallFrom(_, _, _, _)
DivSmallFrom(a, d, i, rem) ==
    IF i = 0 THEN [q |-> <<>>, r |-> rem]
    ELSE LET cur == rem * Base + a[i]
             rest == DivSmallFrom(a, d, i - 1, cur % d)
         IN [q |-> Append(rest.q, cur \div d), r |-> rest.r]

DivSmall(a, d) ==
    LET dv == DivSmallFrom(a, d, Len(a), 0) IN [q |-> TrimHigh(dv.q), r |-> dv.r]

\* the largest limb d with d * b <= r, from a guess that is not below it
RECURSIVE FixDigit(_, _, _)
FixDigit(r, b, d) ==
    IF BigLess(r, MulSmall(b, d)) THEN FixDigit(r, b, d - 1) ELSE d

\* the next limb of the quotient r / b for r < b, the highest limb of b being
\* at least Base / 2: guessed from the two highest limbs of r * Base
QuotientDigit(r, b) ==
    LET top == LimbAt(r, Len(b)) * Base + LimbAt(r, Len(b) - 1)
        guess == top \div b[Len(b)]
    IN FixDigit(ShiftLimbs(r, 1), b, IF guess < Base THEN guess ELSE Base - 1)

\* the k limbs of the floor of r * Base^k / b for r < b, and what is left
RECURSIVE LongDivide(_, _, _)
LongDivide(r, b, k) ==
    IF k = 0 THEN [q |-> <<>>, r |-> r]
    ELSE LET d == QuotientDigit(r, b)
             rest == LongDivide(BigSub(ShiftLimbs(r, 1), MulSmall(b, d)), b, k - 1)
         IN [q |-> Append(rest.q, d), r |-> rest.r]

\* x / y of JavaScript for x >= 0 and y > 0: the quotient of the significands
\* to more than Significand + 2 bits, a last bit that tells whether anything
\* is left, and the rounding of that
NumDiv(x, y) ==
    IF x.m = <<>> THEN [m |-> <<>>, e |-> 0]
    ELSE IF Len(y.m) = 1
    THEN LET want == Significand + 3 + SmallBitLen(y.m[1]) - BitLen(x.m)
             s == IF want > 0 THEN want ELSE 0
             dv == DivSmall(ShiftLeft(x.m, s), y.m[1])
             last == IF dv.r = 0 THEN <<>> ELSE <<1>>
         IN RoundNearestEven(Canon(BigAdd(MulSmall(dv.q, 2), last),
                                   x.e - y.e - s - 1))
    ELSE LET most == IF BitLen(x.m) < BitLen(y.m) THEN BitLen(y.m)
                     ELSE BitLen(x.m) + 1
             bits == ((most + LimbBits - 1) \div LimbBits) * LimbBits
             sa == bits - 1 - BitLen(x.m)
             sb == bits - BitLen(y.m)
             k == (Significand + 3) \div LimbBits + 1
             dv == LongDivide(ShiftLeft(x.m, sa), ShiftLeft(y.m, sb), k)
             last == IF dv.r = <<>> THEN <<>> ELSE <<1>>
         IN RoundNearestEven(Canon(BigAdd(MulSmall(TrimHigh(dv.q), 2), last),
                                   x.e - y.e + sb - sa - k * LimbBits - 1))

(***************************************************************************)
(* Numbers of either sign: [neg, m, e] is -(m * 2^e) when neg is TRUE.     *)
(***************************************************************************)
Signed(neg, x) == [neg |-> neg, m |-> x.m, e |-> x.e]

JsNeg(x) == [x EXCEPT !.neg = ~@]

JsAdd(x, y) ==
    IF x.neg = y.neg THEN Signed(x.neg, NumAdd(x, y))
    ELSE IF NumLess(x, y) THEN Signed(y.neg, NumSub(y, x))
    ELSE IF NumLess(y, x) THEN Signed(x.neg, NumSub(x, y))
    ELSE Signed(FALSE, Num(0, 0))

JsSub(x, y) == JsAdd(x, JsNeg(y))

JsMul(x, y) == Signed(x.neg # y.neg, NumMul(x, y))

\* x / y for y # 0
JsDiv(x, y) == Signed(x.neg # y.neg, NumDiv(x, y))

\* x > 0
IsPositive(x) == ~x.neg /\ x.m # <<>>

\* the number a decimal literal or a slider value n / 10^d stands for: the
\* nearest number to it
Decimal(n, d) ==
    LET mag == IF n < 0 THEN 0 - n ELSE n
    IN IF d = 0 THEN Signed(n < 0, Num(mag, 0))
       ELSE Signed(n < 0, NumDiv(Num(mag, 0), Num(10 ^ d, 0)))

One == Decimal(1, 0)

\* Math.PI = 884279719003555 * 2^-48
Pi == [neg |-> FALSE, m |-> <<1443, 21777, 4349, 25>>, e |-> 0 - 48]

RECURSIVE BigToInt(_)
BigToInt(a) == IF a = <<>> THEN 0 ELSE a[1] + Base * BigToInt(Tail(a))

\* Math.floor(x)
Floor(x) ==
    IF x.m = <<>> THEN 0
    ELSE IF x.e >= 0
    THEN (IF x.neg THEN 0 - 1 ELSE 1) * BigToInt(ShiftLeft(x.m, x.e))
    ELSE LET whole == IF 0 - x.e >= BitLen(x.m) THEN 0
                      ELSE BigToInt(ShiftRight(x.m, 0 - x.e))
         IN IF x.neg THEN 0 - whole - 1 ELSE whole

\* getRandomValue(min, max) for the draw r of Math.random():
\* Math.random() * (max - min) + min
GetRandomValueNumber(r, min, max) == NumAdd(NumMul(r, NumSub(max, min)), min)

\* no getRandomValue call made yet
NotSampled ==
    [by |-> "none", min |-> Num(0, 0), max |-> Num(0, 0), r |-> Num(0, 0),
     v |-> Num(0, 0)]

(***************************************************************************)
(* Filter builders.  Both adapters turn a parameters object into a list of *)
(* ffmpeg video-filter directives; the enhanced adapter also returns the   *)
(* appliedFilters audit list.  A directive or audit string is kept as its  *)
(* name and the values printed into it.  The ranges and the draws are kept *)
(* in thousandths; a sampled value is the JavaScript number computed from  *)
(* them, and a value printed with toFixed(d) is in units of 10^-d.         *)
(***************************************************************************)
\* values Math.random() returns, in thousandths; the n-th call of one build
\* returns the n-th value of the list, cyclically, starting at the seed
RandomDraws == <<0, 100, 500, 900, 999>>

Draw(seed, n) == RandomDraws[((seed + n) % Len(RandomDraws)) + 1]

\* getRandomValue(min, max): Math.random() * (max - min) + min, for a draw
\* and a range in thousandths
GetRandomValue(u, min, max) ==
    JsAdd(JsMul(Decimal(u, 3), JsSub(Decimal(max, 3), Decimal(min, 3))),
          Decimal(min, 3))

\* Number.prototype.toFixed(d): the sign, and the integer n for which
\* n / 10^d is nearest to the magnitude, the larger one of two
ToFixed(x, d) ==
    LET scaled == MulSmall(x.m, 10 ^ d)
        k == 0 - x.e
        units == IF x.m = <<>> THEN 0
                 ELSE IF x.e >= 0 THEN BigToInt(ShiftLeft(scaled, x.e))
                 ELSE BigToInt(ShiftRight(BigAdd(MulSmall(scaled, 2),
                                                 ShiftLeft(<<1>>, k)), k + 1))
    IN [neg |-> x.neg /\ x.m # <<>>, units |-> units, decimals |-> d]

\* Math.floor(value * k)
FloorTimes(v, k) == Floor(JsMul(v, Decimal(k, 0)))

\* ((degrees * Math.PI) / 180).toFixed(4)
Radians(deg) == ToFixed(JsDiv(JsMul(deg, Pi), Decimal(180, 0)), 4)

\* (1 / speedValue).toFixed(3)
InversePts(s) ==
    IF s.m = <<>> THEN <<IF s.neg THEN "-Infinity" ELSE "Infinity">>
    ELSE <<ToFixed(JsDiv(One, s), 3)>>

Directive(kind, args) == [kind |-> kind, args |-> args]
Audit(kind, args) == [kind |-> kind, args |-> args]

\* params.<p>.enabled; IsEnabledAlways takes every parameter for enabled
IsEnabledAlways(p) == TRUE

IsEnabled(p) == p.enabled

\* filters.push(...) / appliedFilters.push(...); PushFront puts the new
\* entries before the old ones
PushFront(list, items) == items \o list

Push(list, items) == list \o items

\* the builder's working state: both lists and the Math.random() calls made
NoFilters(n) == [filters |-> <<>>, applied |-> <<>>, n |-> n]

Emit(acc, directives, audits, draws) ==
    [filters |-> Push(acc.filters, directives),
     applied |-> Push(acc.applied, audits),
     n |-> acc.n + draws]

\* this.getRandomValue(params.<p>.min, params.<p>.max) as the next call of
\* Math.random(), acc.n calls having been made
Sample(acc, spec, p, seed) ==
    CASE acc.n >= 0 ->
        GetRandomValue(Draw(seed, acc.n), spec[p].min, spec[p].max)

ColorNames == <<"saturation", "contrast", "brightness", "gamma">>

(***************************************************************************)
(* buildFilterChain of the enhanced adapter, one operator per section.     *)
(***************************************************************************)
\* one of the four colour sections: the value goes into eqParams and into
\* appliedFilters
ColorStep(c, spec, p, seed) ==
    LET Pushed(text) ==
            [eq |-> Append(c.eq, <<p, text>>),
             applied |-> Push(c.applied, <<Audit(p, <<text>>)>>),
             n |-> c.n + 1]
    IN IF IsEnabled(spec[p])
       THEN Pushed(ToFixed(GetRandomValue(Draw(seed, c.n), spec[p].min,
                                          spec[p].max), 3))
       ELSE c

\* the colour sections and the single eq directive made of eqParams
ColorStage(acc, spec, seed) ==
    LET c0 == [eq |-> <<>>, applied |-> acc.applied, n |-> acc.n]
        EqDirective(c) ==
            [filters |-> IF Len(c.eq) > 0
                         THEN Push(acc.filters, <<Directive("eq", c.eq)>>)
                         ELSE acc.filters,
             applied |-> c.applied,
             n |-> c.n]
    IN EqDirective(
           ColorStep(
               ColorStep(
                   ColorStep(
                       ColorStep(c0, spec, ColorNames[1], seed),
                       spec, ColorNames[2], seed),
                   spec, ColorNames[3], seed),
               spec, ColorNames[4], seed))

NoiseStage(acc, spec, seed) ==
    LET Section(noiseStrength) ==
            Emit(acc, <<Directive("noise", <<noiseStrength>>)>>,
                 <<Audit("noise", <<noiseStrength>>)>>, 1)
    IN IF IsEnabled(spec["noise"])
       THEN Section(FloorTimes(Sample(acc, spec, "noise", seed), 10))
       ELSE acc

RotationStage(acc, spec, seed) ==
    LET Section(degrees) ==
            Emit(acc, <<Directive("rotate", <<Radians(degrees)>>)>>,
                 <<Audit("rotate", <<ToFixed(degrees, 2)>>)>>, 1)
    IN IF IsEnabled(spec["rotation"])
       THEN Section(Sample(acc, spec, "rotation", seed))
       ELSE acc

FlipStage(acc, spec) ==
    IF IsEnabled(spec["flipHorizontally"])
    THEN Emit(acc, <<Directive("hflip", <<>>)>>, <<Audit("hflip", <<>>)>>, 0)
    ELSE acc

\* scale=iw*S:ih*S with S = 1 + zoomValue, emitted only for a positive zoom
\* value
ZoomStage(acc, spec, seed) ==
    LET Scaled(zoomValue, scale) ==
            Emit(acc, <<Directive("scale", <<"iw", scale, "ih", scale>>)>>,
                 <<Audit("zoom", <<ToFixed(zoomValue, 3)>>)>>, 1)
        Section(zoomValue) ==
            IF IsPositive(zoomValue)
            THEN Scaled(zoomValue, ToFixed(JsAdd(One, zoomValue), 3))
            ELSE Emit(acc, <<>>, <<>>, 1)
    IN IF IsEnabled(spec["zoom"])
       THEN Section(Sample(acc, spec, "zoom", seed))
       ELSE acc

\* crop=iw-P:ih-P:P/2:P/2 with P = Math.floor(shiftValue * 5); the test is on shiftValue
PixelShiftStage(acc, spec, seed) ==
    LET Shifted(shiftPixels) ==
            Emit(acc, <<Directive("crop", <<shiftPixels, shiftPixels,
                                            shiftPixels \div 2, shiftPixels \div 2>>)>>,
                 <<Audit("pixelShift", <<shiftPixels>>)>>, 1)
        Section(shiftValue) ==
            IF IsPositive(shiftValue)
            THEN Shifted(FloorTimes(shiftValue, 5))
            ELSE Emit(acc, <<>>, <<>>, 1)
    IN IF IsEnabled(spec["pixelShift"])
       THEN Section(Sample(acc, spec, "pixelShift", seed))
       ELSE acc

VignetteStage(acc, spec, seed) ==
    LET Section(value) ==
            IF IsPositive(value)
            THEN Emit(acc, <<Directive("vignette", <<"PI/4", "frame">>)>>,
                      <<Audit("vignette", <<ToFixed(value, 3)>>)>>, 1)
            ELSE Emit(acc, <<>>, <<>>, 1)
    IN IF IsEnabled(spec["vignette"])
       THEN Section(Sample(acc, spec, "vignette", seed))
       ELSE acc

WaveformStage(acc, spec, seed) ==
    LET Shifted(value, shift) ==
            Emit(acc, <<Directive("geq", <<shift, shift>>)>>,
                 <<Audit("waveformShift", <<ToFixed(value, 3)>>)>>, 1)
        Section(value) ==
            IF IsPositive(value)
            THEN Shifted(value, FloorTimes(value, 3))
            ELSE Emit(acc, <<>>, <<>>, 1)
    IN IF IsEnabled(spec["waveformShift"])
       THEN Section(Sample(acc, spec, "waveformShift", seed))
       ELSE acc

\* scale=W:H for a 9:16 frame of a random even height
RandomSizeStage(acc, spec, seed) ==
    LET Sized(width, height) ==
            Emit(acc, <<Directive("scale", <<width, height>>)>>,
                 <<Audit("randomSize", <<width, height>>)>>, 1)
        Section(baseHeight) ==
            Sized(((baseHeight * 9) \div 32) * 2, (baseHeight \div 2) * 2)
    IN IF IsEnabled(spec["randomPixelSize"])
       THEN Section(BaseHeightMin + FloorTimes(Decimal(Draw(seed, acc.n), 3),
                                               BaseHeightSpan))
       ELSE acc

SpeedStage(acc, spec, seed) ==
    LET Section(speedValue) ==
            Emit(acc, <<Directive("setpts", InversePts(speedValue))>>,
                 <<Audit("speed", <<ToFixed(speedValue, 3)>>)>>, 1)
    IN IF IsEnabled(spec["speed"])
       THEN Section(Sample(acc, spec, "speed", seed))
       ELSE acc

FramerateStage(acc, spec, seed) ==
    LET Section(fps) ==
            Emit(acc, <<Directive("fps", <<fps>>)>>, <<Audit("fps", <<fps>>)>>, 1)
    IN IF IsEnabled(spec["framerate"])
       THEN Section(FloorTimes(Sample(acc, spec, "framerate", seed), 1))
       ELSE acc

\* buildFilterChain(params), n0 Math.random() calls having been made before:
\* the sections in the order of the code, each on the lists the one before it
\* has left
BuildFilterChain(spec, seed, n0) ==
    FramerateStage(
     SpeedStage(
      RandomSizeStage(
       WaveformStage(
        VignetteStage(
         PixelShiftStage(
          ZoomStage(
           FlipStage(
            RotationStage(
             NoiseStage(
              ColorStage(NoFilters(n0), spec, seed),
              spec, seed),
             spec, seed),
            spec),
           spec, seed),
          spec, seed),
         spec, seed),
        spec, seed),
       spec, seed),
      spec, seed),
     spec, seed)

(***************************************************************************)
(* buildFilterString of the simple adapter.  It returns the directives     *)
(* joined by commas, or '' when there is none; the string is kept as the   *)
(* list of its directives.  This builder has no audit list.                *)
(***************************************************************************)
\* one eq directive per enabled colour parameter
SimpleColorStep(acc, spec, p, seed) ==
    IF IsEnabled(spec[p])
    THEN Emit(acc, <<Directive("eq", <<<<p, ToFixed(Sample(acc, spec, p, seed), 2)>>>>)>>,
              <<>>, 1)
    ELSE acc

SimpleNoiseStage(acc, spec, seed) ==
    IF IsEnabled(spec["noise"])
    THEN Emit(acc, <<Directive("noise",
                        <<FloorTimes(Sample(acc, spec, "noise", seed), 100)>>)>>,
              <<>>, 1)
    ELSE acc

SimpleRotationStage(acc, spec, seed) ==
    IF IsEnabled(spec["rotation"])
    THEN Emit(acc, <<Directive("rotate",
                        <<Radians(Sample(acc, spec, "rotation", seed))>>)>>,
              <<>>, 1)
    ELSE acc

SimpleFlipStage(acc, spec) ==
    IF IsEnabled(spec["flipHorizontally"])
    THEN Emit(acc, <<Directive("hflip", <<>>)>>, <<>>, 0)
    ELSE acc

\* scale=iw*S:ih*S for every zoom value
SimpleZoomStage(acc, spec, seed) ==
    LET Scaled(scale) ==
            Emit(acc, <<Directive("scale", <<"iw", scale, "ih", scale>>)>>, <<>>, 1)
    IN IF IsEnabled(spec["zoom"])
       THEN Scaled(ToFixed(JsAdd(One, Sample(acc, spec, "zoom", seed)), 2))
       ELSE acc

\* crop with P = Math.floor(shiftValue * 10), emitted only for P > 0
SimplePixelShiftStage(acc, spec, seed) ==
    LET Section(cropPixels) ==
            IF cropPixels > 0
            THEN Emit(acc, <<Directive("crop", <<cropPixels, cropPixels,
                                                 cropPixels \div 2, cropPixels \div 2>>)>>,
                      <<>>, 1)
            ELSE Emit(acc, <<>>, <<>>, 1)
    IN IF IsEnabled(spec["pixelShift"])
       THEN Section(FloorTimes(Sample(acc, spec, "pixelShift", seed), 10))
       ELSE acc

SimpleVignetteStage(acc, spec, seed) ==
    IF IsEnabled(spec["vignette"])
    THEN Emit(acc, <<Directive("vignette",
                        <<"PI/4", ToFixed(Sample(acc, spec, "vignette", seed), 2)>>)>>,
              <<>>, 1)
    ELSE acc

\* buildFilterString(params): the sections in the order of the code
BuildFilterString(spec, seed) ==
    SimpleVignetteStage(
     SimplePixelShiftStage(
      SimpleZoomStage(
       SimpleFlipStage(
        SimpleRotationStage(
         SimpleNoiseStage(
          SimpleColorStep(
           SimpleColorStep(
            SimpleColorStep(
             SimpleColorStep(NoFilters(0), spec, ColorNames[1], seed),
             spec, ColorNames[2], seed),
            spec, ColorNames[3], seed),
           spec, ColorNames[4], seed),
          spec, seed),
         spec, seed),
        spec),
       spec, seed),
      spec, seed),
     spec, seed)

\* the compression level with the product rounded up instead of down
CrfCeiling(videoQuality) == CrfMax - (videoQuality * 51 + 99) \div 100

\* the compression level of both adapters without the 0.51 scale
CrfUnscaled(videoQuality) == CrfMax - videoQuality

\* crf = 51 - Math.floor(params.videoQuality * 0.51); for the integers the
\* quality slider produces the product's floor is that of videoQuality*51/100
Crf(videoQuality) == CrfMax - (videoQuality * 51) \div 100

\* nothing built yet
NotBuilt ==
    [by |-> "none", seed |-> 0, filters |-> <<>>, applied |-> <<>>,
     reported |-> <<>>, crf |-> 0, args |-> <<>>]

(***************************************************************************)
(* The argument list.  An argument is a string; it is kept as the sequence *)
(* of its pieces, a piece being a directive, a literal text, a formatted   *)
(* number or the separator ",".  A filter graph videoFilters.join(',') is  *)
(* the sequence of its directives, the empty string the empty sequence,    *)
(* and string concatenation the concatenation of the sequences.            *)
(***************************************************************************)
Word(text) == <<Directive("text", <<text>>)>>
NumberText(n) == <<Directive("number", <<n>>)>>
Kilo(n) == <<Directive("k", <<n>>)>>
FixedText(f) == <<Directive("fixed", <<f>>)>>
Comma == Directive(",", <<>>)

\* a === b for two strings
SameString(a, b) ==
    /\ Len(a) = Len(b)
    /\ \A i \in DOMAIN a :
          /\ a[i].kind = b[i].kind
          /\ a[i].args = b[i].args

\* args.indexOf(x), counted from 1; 0 stands for JavaScript's -1
IndexOf(args, x) ==
    IF \E i \in DOMAIN args : SameString(args[i], x)
    THEN CHOOSE i \in DOMAIN args :
            /\ SameString(args[i], x)
            /\ \A k \in 1 .. i - 1 : ~SameString(args[k], x)
    ELSE 0

\* the name of a directive without its first character
DropFirstChar(kind) ==
    CASE kind = "setpts" -> "etpts"
      [] kind = "text"   -> "ext"

\* s.substring(1): the string without its first character
Substring1(s) ==
    IF s = <<>> THEN s
    ELSE IF s[1].kind = Comma.kind THEN Tail(s)
    ELSE <<Directive(DropFirstChar(s[1].kind), s[1].args)>> \o Tail(s)

\* Math.floor(this.getRandomValue(min, max))
FloorOfSample(u, min, max) == Floor(GetRandomValue(u, min, max))

InputName == "input.mp4"
OutputName(a) == IF a = "enhanced" THEN "output.webm" ELSE "output.mp4"

\* const args = ['-i', inputFileName]
FirstArgs == <<Word("-i"), Word(InputName)>>

\* args.push(option, value) when the parameter is enabled
PushOption(args, enabled, option, value) ==
    IF enabled THEN args \o <<Word(option), value>> ELSE args

\* the speed section of the simple adapter, with the forms of the last
\* argument list, of the filter string and of the sampled speed
SimpleSpeedArgs(args, filterString, speedValue) ==
    LET Joined(speedFilter) ==
            IF Len(filterString) > 0
            THEN [args EXCEPT ![IndexOf(args, filterString) + 1] = @ \o speedFilter]
            ELSE args \o <<Word("-vf"), Substring1(speedFilter)>>
    IN Joined((IF Len(filterString) > 0 THEN <<Comma>> ELSE <<>>)
              \o <<Directive("setpts", InversePts(speedValue))>>)

\* the argument list of processVideo of the simple adapter, fs being what
\* its call of buildFilterString returned
SimpleArgs(params, spec, seed, fs) ==
    LET filterString == fs.filters
        On(p) == IsEnabled(spec[p])
        Step(p) == IF On(p) THEN 1 ELSE 0
        nVideo == fs.n
        nAudio == nVideo + Step("videoBitrate")
        nRate == nAudio + Step("audioBitrate")
        nSpeed == nRate + Step("framerate")
        nVolume == nSpeed + Step("speed")
        nTrim == nVolume + Step("volume")
        Value(p, n) == GetRandomValue(Draw(seed, n), spec[p].min, spec[p].max)
        Speed(args) ==
            IF On("speed")
            THEN SimpleSpeedArgs(args, filterString, Value("speed", nSpeed))
            ELSE args
    IN Append(
        PushOption(
         PushOption(
          Speed(
           PushOption(
            PushOption(
             PushOption(
              PushOption(
               PushOption(FirstArgs, Len(filterString) > 0, "-vf", filterString),
               TRUE, "-crf", NumberText(Crf(params.videoQuality))),
              On("videoBitrate"), "-b:v",
              Kilo(FloorOfSample(Draw(seed, nVideo), spec["videoBitrate"].min,
                                 spec["videoBitrate"].max))),
             On("audioBitrate"), "-b:a",
             Kilo(FloorOfSample(Draw(seed, nAudio), spec["audioBitrate"].min,
                                spec["audioBitrate"].max))),
            On("framerate"), "-r",
            NumberText(FloorTimes(Value("framerate", nRate), 1)))),
          On("volume"), "-af",
          <<Directive("volume", <<ToFixed(Value("volume", nVolume), 2)>>)>>),
         On("trim"), "-ss", FixedText(ToFixed(Value("trim", nTrim), 2))),
        Word(OutputName("simple")))

\* the argument list of processVideo of the enhanced adapter, chain being
\* what its call of buildFilterChain returned
EnhancedArgs(params, spec, seed, chain) ==
    LET On(p) == IsEnabled(spec[p])
        Step(p) == IF On(p) THEN 1 ELSE 0
        nVideo == chain.n
        nAudio == nVideo + Step("videoBitrate")
        nVolume == nAudio + Step("audioBitrate")
        Value(p, n) == GetRandomValue(Draw(seed, n), spec[p].min, spec[p].max)
    IN PushOption(
        PushOption(
         PushOption(
          PushOption(
           PushOption(
            PushOption(FirstArgs, On("trim"), "-ss",
                       FixedText(ToFixed(Value("trim", 0), 2))),
            Len(chain.filters) > 0, "-vf", chain.filters),
           TRUE, "-crf", NumberText(Crf(params.videoQuality))),
          On("videoBitrate"), "-b:v",
          Kilo(FloorOfSample(Draw(seed, nVideo), spec["videoBitrate"].min,
                             spec["videoBitrate"].max))),
         On("audioBitrate"), "-b:a",
         Kilo(FloorOfSample(Draw(seed, nAudio), spec["audioBitrate"].min,
                            spec["audioBitrate"].max))),
        On("volume"), "-af",
        <<Directive("volume", <<ToFixed(Value("volume", nVolume), 3)>>)>>)
       \o <<Word("-c:v"), Word("libvpx-vp9"), Word("-c:a"), Word("libopus"),
            Word(OutputName("enhanced"))>>

\* the command section of processVideo of the enhanced adapter: the trim
\* draw, buildFilterChain (chain is what it returned), the crf, the bitrate
\* draws, and the volume audit pushed onto the list the builder returned
EnhancedCommand(params, spec, seed, chain) ==
    [by |-> "enhanced", seed |-> seed,
     filters |-> chain.filters,
     applied |-> chain.applied,
     reported |->
        IF IsEnabled(spec["volume"])
        THEN Push(chain.applied,
                  <<Audit("volume",
                      <<ToFixed(GetRandomValue(
                                  Draw(seed, chain.n
                                      + (IF IsEnabled(spec["videoBitrate"]) THEN 1 ELSE 0)
                                      + (IF IsEnabled(spec["audioBitrate"]) THEN 1 ELSE 0)),
                                  spec["volume"].min, spec["volume"].max), 3)>>)>>)
        ELSE chain.applied,
     crf |-> Crf(params.videoQuality),
     args |-> EnhancedArgs(params, spec, seed, chain)]

\* the command section of processVideo of the simple adapter, fs being what
\* buildFilterString returned
SimpleCommand(params, spec, seed, fs) ==
    [by |-> "simple", seed |-> seed,
     filters |-> fs.filters,
     applied |-> <<>>,
     reported |-> <<>>,
     crf |-> Crf(params.videoQuality),
     args |-> SimpleArgs(params, spec, seed, fs)]

(***************************************************************************)
(* Progress values are fractions <<num, den>> in lowest terms (percent).   *)
(***************************************************************************)
RECURSIVE Gcd(_, _)
Gcd(x, y) == IF y = 0 THEN x ELSE Gcd(y, x % y)

Frac(n, d) == IF n = 0 THEN <<0, 1>> ELSE <<n \div Gcd(n, d), d \div Gcd(n, d)>>

(***************************************************************************)
(* Jobs, calls and runs.  A job is one generateVariations call, a call one *)
(* processVideo call that is suspended in an await, a run one processQueue *)
(* invocation or one simulated processing.  A job's kind is the panel that *)
(* started it.  The operators below take and return the record             *)
(*   [jobs, calls, runs, panel]                                            *)
(* so that promise continuations can be chained inside one action.         *)
(***************************************************************************)
World == [jobs |-> jobs, calls |-> calls, runs |-> runs, panel |-> panel]

\* a fallback that labels every result with the WebCodecs marker
FallbackResultOneMarker(j, idx, file) ==
    [job |-> j, idx |-> idx, applied_filters |-> <<"webcodecs-fallback">>,
     size |-> FileSize(file), format |-> "original", processing_time |-> 100]

\* processWithWebCodecs / processWithCanvas: the input relabelled
FallbackResult(j, idx, file) ==
    IF supportsWebCodecs
    THEN [job |-> j, idx |-> idx, applied_filters |-> <<"webcodecs-fallback">>,
          size |-> FileSize(file), format |-> "original", processing_time |-> 100]
    ELSE [job |-> j, idx |-> idx, applied_filters |-> <<"canvas-fallback">>,
          size |-> FileSize(file), format |-> "original", processing_time |-> 200]

\* the value a full-engine processVideo call returns; job and idx stand for
\* the identity of the Blob made by that call
EngineResult(a, j, idx) ==
    IF a = "enhanced"
    THEN [job |-> j, idx |-> idx, format |-> "webm"]
    ELSE [job |-> j, idx |-> idx, type |-> <<"video", "mp4">>]

\* results.push(result) / variations.push(variationBlob); PushResultFront is
\* the contrast case results.unshift(result)
PushResultFront(results, r) == <<r>> \o results
PushResult(results, r) == Append(results, r)

\* params is the parameters object the caller's closure holds; the nested
\* objects it refers to are on the heap
NewJob(kind, r, gen, file, count, item, params) ==
    [kind |-> kind, run |-> r, mount |-> gen, file |-> file, count |-> count,
     item |-> item, params |-> params, specAtStart |-> nested,
     i |-> 0, results |-> <<>>, state |-> "running", plog |-> <<>>]

NewCall(j, idx) ==
    [job |-> j, idx |-> idx, pc |-> "arrayBuffer", inst |-> 0, ticks |-> 0,
     read |-> <<>>]

\* the processVideo calls one iteration of the generateVariations loop starts:
\* const result = await this.processVideo(...); StartedCallsNoAwait is the
\* contrast case of a loop that does not await
StartedCallsNoAwait(j, job) == {NewCall(j, k) : k \in (job.i + 1)..job.count}
StartedCalls(j, job) == {NewCall(j, job.i + 1)}

\* the statements of handleProcess before the try block
EnhancedHandleProcessStart(p) ==
    [p EXCEPT !.processing = TRUE, !.progress = <<0, 1>>,
              !.currentVariation = 0, !.results = <<>>]

SingleHandleProcessStart(p) ==
    [p EXCEPT !.processing = TRUE, !.progress = <<0, 1>>,
              !.currentVariation = 0, !.variations = <<>>]

\* the statement after the awaited generateVariations: setResults(results) /
\* setVariations(processedVariations); skipped when the await throws
\* (ShowPartialResults is the contrast case that is not skipped)
ShowPartialResults(p, job) ==
    IF job.kind = "enhanced" THEN [p EXCEPT !.results = job.results]
    ELSE [p EXCEPT !.variations = job.results]
ShowResults(p, job) ==
    IF job.state # "returned" THEN p
    ELSE IF job.kind = "enhanced" THEN [p EXCEPT !.results = job.results]
    ELSE [p EXCEPT !.variations = job.results]

\* the finally block of handleProcess
HandleProcessFinally(p) ==
    [p EXCEPT !.processing = FALSE, !.progress = <<0, 1>>, !.currentVariation = 0]

\* a status update that is applied to every item of the queue
MarkProcessingAll(queue, id) ==
    [k \in DOMAIN queue |->
        [queue[k] EXCEPT !.status = "processing", !.progress = <<0, 1>>]]

\* setQueue(prev => prev.map(q => q.id === id ? {...} : q))
MarkProcessing(queue, id) ==
    [k \in DOMAIN queue |->
        IF queue[k].id = id
        THEN [queue[k] EXCEPT !.status = "processing", !.progress = <<0, 1>>]
        ELSE queue[k]]

MarkCompleted(queue, id, variations) ==
    [k \in DOMAIN queue |->
        IF queue[k].id = id
        THEN [queue[k] EXCEPT !.status = "completed", !.variations = variations,
                              !.progress = <<100, 1>>]
        ELSE queue[k]]

\* the catch branch of processQueue (MarkErrorAll is the contrast case of a
\* map without the id test)
MarkErrorAll(queue, id) ==
    [k \in DOMAIN queue |-> [queue[k] EXCEPT !.status = "error"]]
MarkError(queue, id) ==
    [k \in DOMAIN queue |->
        IF queue[k].id = id THEN [queue[k] EXCEPT !.status = "error"] ELSE queue[k]]

SetItemProgress(queue, id, progress) ==
    [k \in DOMAIN queue |->
        IF queue[k].id = id THEN [queue[k] EXCEPT !.progress = progress] ELSE queue[k]]

\* a state update of an unmounted component instance has no effect
IfMounted(gen, W, p) == IF gen = mountGen THEN [W EXCEPT !.panel = p] ELSE W

\* queue.filter(q => q.status === 'completed').length
RECURSIVE CountCompleted(_)
CountCompleted(items) ==
    IF items = <<>> THEN 0
    ELSE (IF Head(items).status = "completed" THEN 1 ELSE 0) + CountCompleted(Tail(items))

RECURSIVE GenerateVariationsLoop(_, _), RunLoop(_, _)

\* the code after the awaited generateVariations in the process handlers
RunAfterJob(W, j) ==
    LET job == W.jobs[j]
        r == job.run
    IN IF job.kind \in {"enhanced", "single"}
       THEN IfMounted(job.mount, W, HandleProcessFinally(ShowResults(W.panel, job)))
       ELSE LET ok == job.state = "returned"
                W1 == IF job.mount # mountGen THEN W
                      ELSE [W EXCEPT !.panel.queue =
                               IF ok THEN MarkCompleted(@, job.item, job.results)
                               ELSE MarkError(@, job.item)]
            IN RunLoop([W1 EXCEPT !.runs[r].i = @ + 1,
                                  !.runs[r].outcomes =
                                      Append(@, IF ok THEN "completed" ELSE "error")],
                       r)

\* generateVariations from the loop test on: the head of processVideo for the
\* next variation runs up to its first await on a pending operation
GenerateVariationsLoop(W, j) ==
    LET job == W.jobs[j]
        a == AdapterOf(job.kind)
    IN IF job.i >= job.count
       THEN RunAfterJob([W EXCEPT !.jobs[j].state = "returned"], j)
       ELSE IF a = "enhanced" /\ ~isLoaded[a]
       THEN GenerateVariationsLoop(
                [W EXCEPT !.jobs[j].results =
                              PushResult(@, FallbackResult(j, job.i + 1, job.file)),
                          !.jobs[j].i = @ + 1], j)
       ELSE IF ffmpeg[a] = 0
       THEN RunAfterJob([W EXCEPT !.jobs[j].state = "rejected"], j)
       ELSE [W EXCEPT !.calls = @ \cup StartedCalls(j, job)]

\* processQueue from the loop test on
RunLoop(W, r) ==
    LET run == W.runs[r]
    IN IF run.i > Len(run.items)
       THEN IfMounted(run.mount,
                [W EXCEPT !.runs[r].pc = "done",
                          !.runs[r].report = [x |-> CountCompleted(run.items),
                                              n |-> Len(run.items)]],
                [W.panel EXCEPT !.processing = FALSE])
       ELSE LET item == run.items[run.i]
                W1 == IF run.mount # mountGen THEN W
                      ELSE [W EXCEPT !.panel.queue = MarkProcessing(@, item.id)]
            IN IF run.loaded
               THEN GenerateVariationsLoop(
                        [W1 EXCEPT !.runs[r].pc = "job",
                                   !.jobs = Append(@, NewJob("batch", r, run.mount,
                                                item.file, run.n, item.id,
                                                run.params))],
                        Len(W1.jobs) + 1)
               ELSE IF run.n < 0
               \* totalSteps is negative: neither the timer loop nor the loop
               \* of the copies runs, the item is completed with no variation
               THEN RunLoop(
                        [(IF run.mount # mountGen THEN W1
                          ELSE [W1 EXCEPT !.panel.queue =
                                   MarkCompleted(@, item.id, <<>>)])
                         EXCEPT !.runs[r].i = @ + 1,
                                !.runs[r].outcomes = Append(@, "completed")], r)
               ELSE [W1 EXCEPT !.runs[r].pc = "timer", !.runs[r].step = 0]

\* a processVideo call rejects: generateVariations rejects with it
CallRejects(W, c) ==
    RunAfterJob([W EXCEPT !.calls = @ \ {c}, !.jobs[c.job].state = "rejected"], c.job)

\* a processVideo call resolves: push the result and go round the loop
CallResolves(W, c) ==
    LET a == AdapterOf(W.jobs[c.job].kind)
    IN GenerateVariationsLoop(
           [W EXCEPT !.calls = @ \ {c},
                     !.jobs[c.job].results = PushResult(@, EngineResult(a, c.job, c.idx)),
                     !.jobs[c.job].i = @ + 1], c.job)

\* URL.createObjectURL(outputBlob) / URL.createObjectURL(inputFile): the URL
\* made for the result r of a processVideo call of the enhanced adapter
ObjectUrl(r) == [job |-> r.job, idx |-> r.idx]

\* the object URLs made by the processVideo calls that returned in the step
\* leading to W: one for each result pushed since
CreatedObjectUrls(W) ==
    UNION { { ObjectUrl(W.jobs[j].results[k]) : k \in DOMAIN W.jobs[j].results } :
            j \in {i \in DOMAIN W.jobs : AdapterOf(W.jobs[i].kind) = "enhanced"} }

Commit(W) ==
    /\ jobs' = W.jobs
    /\ calls' = W.calls
    /\ runs' = W.runs
    /\ panel' = W.panel
    /\ objectUrls' = objectUrls \cup CreatedObjectUrls(W)

\* the run keeps what the closure of its callback captured: the queue, the
\* number of variations, ffmpegLoaded and the parameters object of the render
\* it was started in
NewRun(kind, gen, n, loaded, items, file) ==
    [kind |-> kind, mount |-> gen, n |-> n, loaded |-> loaded, items |-> items,
     params |-> parameters, file |-> file, i |-> 1, pc |-> "job", step |-> 0, mocks |-> <<>>,
     outcomes |-> <<>>, report |-> [x |-> 0, n |-> 0]]

\* a variation of the simulated processing: new Blob([arrayBuffer], {type})
MockVariation(file) == [mock |-> file, type |-> FileType(file)]

(***************************************************************************)
(* Handlers of the single-item panels                                      *)
(***************************************************************************)
\* handleFileUpload of EnhancedSingleVideoProcessor and SingleVideoProcessor;
\* the file input is rendered only while no file is uploaded
HandleFileUpload(f) ==
    /\ activeTab \in {"enhanced", "single"}
    /\ panel.uploadedFile = ""
    /\ IF IsVideo(f)
       THEN /\ panel' = IF activeTab = "enhanced"
                        THEN [panel EXCEPT !.uploadedFile = f, !.results = <<>>]
                        ELSE [panel EXCEPT !.uploadedFile = f, !.variations = <<>>]
            /\ UNCHANGED refused
       ELSE /\ refused' = refused \cup {activeTab}
            /\ UNCHANGED panel
    /\ UNCHANGED <<activeTab, mountGen, adapterVars, paramVars, workVars, clock>>

RemoveFile ==
    /\ activeTab \in {"enhanced", "single"}
    /\ panel.uploadedFile # ""
    /\ panel' = IF activeTab = "enhanced"
                THEN [panel EXCEPT !.uploadedFile = "", !.results = <<>>,
                                   !.progress = <<0, 1>>, !.currentVariation = 0]
                ELSE [panel EXCEPT !.uploadedFile = "", !.variations = <<>>,
                                   !.progress = <<0, 1>>, !.currentVariation = 0]
    /\ UNCHANGED <<activeTab, mountGen, adapterVars, paramVars, workVars, uploadVars>>

\* downloadBlob(blob | string, filename) of the enhanced adapter: the live
\* object URLs after the call.  A Blob gets a URL of its own, which is revoked
\* once the anchor was clicked; a string is used as the URL and left alone
DownloadBlob(urls, arg) ==
    IF "string" \in DOMAIN arg
    THEN urls
    ELSE (urls \cup {[blob |-> arg.blob]}) \ {[blob |-> arg.blob]}

\* downloadResult(result, index) of EnhancedSingleVideoProcessor
DownloadResult(k) ==
    /\ activeTab = "enhanced"
    /\ k \in DOMAIN panel.results
    /\ objectUrls' = DownloadBlob(objectUrls,
                                  [string |-> ObjectUrl(panel.results[k])])
    /\ UNCHANGED <<activeTab, mountGen, panel, adapterVars, paramVars, jobs,
                   calls, runs, uploadVars>>

\* integers typed into a number field, below its min="1" among them
TypedCounts == (0 - MaxCount) .. MaxCount

\* parseInt(e.target.value) || 1, for a typed integer
ParseVariations(typed) == IF typed = 0 THEN 1 ELSE typed

\* the number field of the single-item panels shows once a file is uploaded,
\* the one of the batch panel always
SetNumberOfVariations(typed) ==
    /\ activeTab # "none"
    /\ IF activeTab = "batch" THEN TRUE ELSE panel.uploadedFile # ""
    /\ panel' = [panel EXCEPT !.numberOfVariations = ParseVariations(typed)]
    /\ UNCHANGED <<activeTab, mountGen, adapterVars, paramVars, workVars, uploadVars>>

\* handleProcess of EnhancedSingleVideoProcessor
EnhancedHandleProcess ==
    /\ activeTab = "enhanced"
    /\ panel.uploadedFile # ""
    /\ ~panel.processing
    /\ panel.initializationStatus # "loading"
    /\ Len(jobs) < MaxJobs
    /\ Commit(GenerateVariationsLoop(
           [World EXCEPT
               !.panel = EnhancedHandleProcessStart(panel),
               !.jobs = Append(@, NewJob("enhanced", 0, mountGen, panel.uploadedFile,
                                         panel.numberOfVariations, <<>>,
                                         parameters))],
           Len(jobs) + 1))
    /\ UNCHANGED <<activeTab, mountGen, adapterVars, paramVars, uploadVars>>

\* handleProcess of SingleVideoProcessor: the adapter if ffmpegLoaded, else the
\* simulated processing, which starts with setCurrentVariation(1) and a timer
SingleHandleProcess ==
    /\ activeTab = "single"
    /\ panel.uploadedFile # ""
    /\ ~panel.processing
    /\ IF panel.ffmpegLoaded
       THEN /\ Len(jobs) < MaxJobs
            /\ Commit(GenerateVariationsLoop(
                   [World EXCEPT
                       !.panel = SingleHandleProcessStart(panel),
                       !.jobs = Append(@, NewJob("single", 0, mountGen,
                                    panel.uploadedFile, panel.numberOfVariations,
                                    <<>>, parameters))],
                   Len(jobs) + 1))
       ELSE /\ Len(runs) < MaxRuns
            /\ Commit(
                 IF panel.numberOfVariations < 1
                 \* the loop over the variations does not run: the handler
                 \* reaches its finally block without an await
                 THEN [World EXCEPT
                         !.panel = HandleProcessFinally(SingleHandleProcessStart(panel)),
                         !.runs = Append(@, [NewRun("single", mountGen,
                                      panel.numberOfVariations, FALSE, <<>>,
                                      panel.uploadedFile) EXCEPT !.pc = "done"])]
                 ELSE [World EXCEPT
                         !.panel = [SingleHandleProcessStart(panel) EXCEPT
                                       !.currentVariation = 1],
                         !.runs = Append(@, [NewRun("single", mountGen,
                                      panel.numberOfVariations, FALSE, <<>>,
                                      panel.uploadedFile) EXCEPT !.pc = "timer"])])
    /\ UNCHANGED <<activeTab, mountGen, adapterVars, paramVars, uploadVars>>

\* one timer of the simulated processing fires: setProgress((step / steps) * 100)
SingleTimerTick(r) ==
    /\ runs[r].kind = "single"
    /\ runs[r].pc = "timer"
    /\ LET run == runs[r]
           W1 == IfMounted(run.mount, World,
                     [panel EXCEPT !.progress = Frac(run.step * 100, SingleSteps)])
       IN Commit(IF run.step = SingleSteps
                 THEN [W1 EXCEPT !.runs[r].pc = "arrayBuffer"]
                 ELSE [W1 EXCEPT !.runs[r].step = @ + 1])
    /\ UNCHANGED <<activeTab, mountGen, adapterVars, paramVars, uploadVars>>

\* uploadedFile.arrayBuffer() of the simulated processing settles
SingleMockSettles(r, ok) ==
    /\ runs[r].kind = "single"
    /\ runs[r].pc = "arrayBuffer"
    /\ LET run == runs[r]
           p1 == [panel EXCEPT !.variations = Append(@, MockVariation(run.file))]
       IN Commit(
            IF ~ok
            THEN IfMounted(run.mount, [World EXCEPT !.runs[r].pc = "done"],
                           HandleProcessFinally(panel))
            ELSE IF run.i < run.n
            THEN IfMounted(run.mount,
                     [World EXCEPT !.runs[r].i = @ + 1, !.runs[r].step = 0,
                                   !.runs[r].pc = "timer"],
                     [p1 EXCEPT !.currentVariation = run.i + 1])
            ELSE IfMounted(run.mount, [World EXCEPT !.runs[r].pc = "done"],
                           HandleProcessFinally(p1)))
    /\ UNCHANGED <<activeTab, mountGen, adapterVars, paramVars, uploadVars>>

(***************************************************************************)
(* Handlers of the batch panel                                             *)
(***************************************************************************)
Selections == {<<"a.mp4">>, <<"n.txt">>, <<"n.txt", "a.mp4">>}

NewItem(file) ==
    [id |-> <<clock, file>>, file |-> file, status |-> "pending",
     progress |-> <<0, 1>>, variations |-> <<>>]

NewItems(videoFiles) == [k \in DOMAIN videoFiles |-> NewItem(videoFiles[k])]

\* handleFileUpload of BatchVideoProcessor; clock is Date.now(), which has
\* advanced between two upload events
BatchHandleFileUpload(sel) ==
    /\ activeTab = "batch"
    /\ LET videoFiles == SelectSeq(sel, IsVideo)
       IN /\ Len(panel.queue) + Len(videoFiles) <= MaxQueue
          /\ IF Len(videoFiles) = 0
             THEN /\ refused' = refused \cup {activeTab}
                  /\ UNCHANGED <<panel, clock>>
             ELSE /\ clock < MaxUploads
                  /\ panel' = [panel EXCEPT !.queue = @ \o NewItems(videoFiles)]
                  /\ clock' = clock + 1
                  /\ UNCHANGED refused
    /\ UNCHANGED <<activeTab, mountGen, adapterVars, paramVars, workVars>>

\* a remove button shown for every item and never disabled
RemoveFromQueueAnyStatus(id) ==
    /\ activeTab = "batch"
    /\ \E k \in DOMAIN panel.queue : panel.queue[k].id = id
    /\ panel' = [panel EXCEPT !.queue = SelectSeq(@, LAMBDA item : item.id # id)]
    /\ UNCHANGED <<activeTab, mountGen, adapterVars, paramVars, workVars, uploadVars>>

\* the remove button is shown for pending items and disabled while processing
RemoveFromQueue(id) ==
    /\ activeTab = "batch"
    /\ ~panel.processing
    /\ \E k \in DOMAIN panel.queue :
          panel.queue[k].id = id /\ panel.queue[k].status = "pending"
    /\ panel' = [panel EXCEPT !.queue = SelectSeq(@, LAMBDA item : item.id # id)]
    /\ UNCHANGED <<activeTab, mountGen, adapterVars, paramVars, workVars, uploadVars>>

ClearQueue ==
    /\ activeTab = "batch"
    /\ ~panel.processing
    /\ panel.queue # <<>>
    /\ panel' = [panel EXCEPT !.queue = <<>>]
    /\ UNCHANGED <<activeTab, mountGen, adapterVars, paramVars, workVars, uploadVars>>

\* processQueue: the queue, numberOfVariations and ffmpegLoaded of the render
\* the callback was made in are used for the whole run
ProcessQueue ==
    /\ activeTab = "batch"
    /\ panel.queue # <<>>
    /\ ~panel.processing
    /\ Len(runs) < MaxRuns
    /\ panel.ffmpegLoaded => Len(jobs) + Len(panel.queue) <= MaxJobs
    /\ Commit(RunLoop(
           [World EXCEPT
               !.panel = [panel EXCEPT !.processing = TRUE],
               !.runs = Append(@, NewRun("batch", mountGen, panel.numberOfVariations,
                                         panel.ffmpegLoaded, panel.queue, ""))],
           Len(runs) + 1))
    /\ UNCHANGED <<activeTab, mountGen, adapterVars, paramVars, uploadVars>>

\* one timer of the simulated batch processing fires
BatchTimerTick(r) ==
    /\ runs[r].kind = "batch"
    /\ runs[r].pc = "timer"
    /\ LET run == runs[r]
           totalSteps == run.n * BatchStepsPerVariation
           id == run.items[run.i].id
           W1 == IF run.mount # mountGen THEN World
                 ELSE [World EXCEPT !.panel.queue =
                          SetItemProgress(@, id, Frac(run.step * 100, totalSteps))]
       IN Commit(IF run.step = totalSteps
                 THEN [W1 EXCEPT !.runs[r].pc = "arrayBuffer", !.runs[r].mocks = <<>>]
                 ELSE [W1 EXCEPT !.runs[r].step = @ + 1])
    /\ UNCHANGED <<activeTab, mountGen, adapterVars, paramVars, uploadVars>>

\* item.file.arrayBuffer() of the simulated batch processing settles
BatchMockSettles(r, ok) ==
    /\ runs[r].kind = "batch"
    /\ runs[r].pc = "arrayBuffer"
    /\ LET run == runs[r]
           item == run.items[run.i]
           mocks == Append(run.mocks, MockVariation(item.file))
           Finish(q, outcome) ==
               RunLoop([(IF run.mount # mountGen THEN World
                         ELSE [World EXCEPT !.panel.queue = q])
                        EXCEPT !.runs[r].i = @ + 1, !.runs[r].mocks = <<>>,
                               !.runs[r].outcomes = Append(@, outcome)], r)
       IN Commit(
            IF ~ok THEN Finish(MarkError(panel.queue, item.id), "error")
            ELSE IF Len(mocks) < run.n THEN [World EXCEPT !.runs[r].mocks = mocks]
            ELSE Finish(MarkCompleted(panel.queue, item.id, mocks), "completed"))
    /\ UNCHANGED <<activeTab, mountGen, adapterVars, paramVars, uploadVars>>

(***************************************************************************)
(* One full-engine processVideo call, await by await.  An engine operation *)
(* is sent to the instance this.ffmpeg names when the statement runs; an   *)
(* instance that is not loaded rejects every operation at once.            *)
(***************************************************************************)
ProgressValues == {50}

AdapterOfCall(c) == AdapterOf(jobs[c.job].kind)

\* the call c, now c2, sends its next operation to this.ffmpeg
IssueOp(W, c, c2, pcNext) ==
    LET a == AdapterOf(W.jobs[c.job].kind)
        inst == ffmpeg[a]
    IN IF engines[a][inst].loaded
       THEN [W EXCEPT !.calls = (@ \ {c}) \cup {[c2 EXCEPT !.pc = pcNext,
                                                          !.inst = inst]}]
       ELSE CallRejects([W EXCEPT !.calls = (@ \ {c}) \cup {c2}], c2)

\* await inputFile.arrayBuffer() settles; on success writeFile is sent
ArrayBufferSettles(c, ok) ==
    /\ c \in calls
    /\ c.pc = "arrayBuffer"
    /\ IF ok THEN Commit(IssueOp(World, c, c, "writeFile"))
       ELSE Commit(CallRejects(World, c))
    /\ UNCHANGED <<activeTab, mountGen, adapterVars, paramVars, uploadVars>>

\* the progress callback generateVariations passes to processVideo:
\* (progress) => onProgress?.(i + 1, progress), with the panel's onProgress
OnProgress(W, j, idx, v) ==
    LET job == W.jobs[j]
        W1 == [W EXCEPT !.jobs[j].plog = Append(@, idx)]
    IN IF job.mount # mountGen THEN W1
       ELSE IF job.kind = "batch"
       THEN [W1 EXCEPT !.panel.queue = SetItemProgress(@, job.item, Frac(v, 1))]
       ELSE [W1 EXCEPT !.panel.currentVariation = idx, !.panel.progress = Frac(v, 1)]

\* the listener processVideo registers with ffmpeg.on('progress', ...): the
\* simple adapter counts the events and reports every tenth, the enhanced
\* adapter reports each
ListenerFires(a, cnt) == a = "enhanced" \/ cnt % ThrottleEvery = 0

NewListener(j, idx) == [job |-> j, idx |-> idx, cnt |-> 0]

\* one 'progress' event: every registered listener runs, in registration order
RECURSIVE Dispatch(_, _, _, _, _)
Dispatch(W, a, ls, k, v) ==
    IF k > Len(ls) THEN [w |-> W, ls |-> ls]
    ELSE LET cnt == IF a = "enhanced" THEN 0 ELSE (ls[k].cnt + 1) % ThrottleEvery
             W1 == IF ListenerFires(a, cnt) THEN OnProgress(W, ls[k].job, ls[k].idx, v)
                   ELSE W
         IN Dispatch(W1, a, [ls EXCEPT ![k].cnt = cnt], k + 1, v)

\* what the argument building of processVideo reads from params
ReadParams(job) == <<[videoQuality |-> job.params.videoQuality, nested |-> nested]>>

\* writeFile resolves; then the arguments are built from params, the progress
\* listener is registered on this.ffmpeg, and exec is sent
WriteFileResolves(c) ==
    /\ c \in calls
    /\ c.pc = "writeFile"
    /\ LET a == AdapterOfCall(c)
       IN /\ engines' = [engines EXCEPT
                 ![a][c.inst].fs = @ \cup {InputName},
                 ![a][ffmpeg[a]].listeners = Append(@, NewListener(c.job, c.idx))]
          /\ Commit(IssueOp(World, c, [c EXCEPT !.read = ReadParams(jobs[c.job])],
                            "exec"))
    /\ UNCHANGED <<activeTab, mountGen, ffmpeg, isLoaded, supportsWebCodecs, inits,
                   paramVars, uploadVars>>

\* the running exec emits a 'progress' event
ExecProgress(c, v) ==
    /\ c \in calls
    /\ c.pc = "exec"
    /\ c.ticks < MaxProgress
    /\ LET a == AdapterOfCall(c)
           d == Dispatch([World EXCEPT !.calls = (@ \ {c}) \cup
                                            {[c EXCEPT !.ticks = @ + 1]}],
                         a, engines[a][c.inst].listeners, 1, v)
       IN /\ engines' = [engines EXCEPT ![a][c.inst].listeners = d.ls]
          /\ Commit(d.w)
    /\ UNCHANGED <<activeTab, mountGen, ffmpeg, isLoaded, supportsWebCodecs, inits,
                   paramVars, uploadVars>>

\* exec settles: on success the output file exists and readFile is sent
ExecSettles(c, ok) ==
    /\ c \in calls
    /\ c.pc = "exec"
    /\ LET a == AdapterOfCall(c)
       IN IF ok
          THEN /\ engines' = [engines EXCEPT ![a][c.inst].fs = @ \cup {OutputName(a)}]
               /\ Commit(IssueOp(World, c, [c EXCEPT !.ticks = 0], "readFile"))
          ELSE /\ UNCHANGED engines
               /\ Commit(CallRejects(World, c))
    /\ UNCHANGED <<activeTab, mountGen, ffmpeg, isLoaded, supportsWebCodecs, inits,
                   paramVars, uploadVars>>

\* readFile(output) settles: it rejects if the file is not there; then
\* deleteFile(input) is sent
ReadFileSettles(c) ==
    /\ c \in calls
    /\ c.pc = "readFile"
    /\ LET a == AdapterOfCall(c)
       IN IF OutputName(a) \in engines[a][c.inst].fs
          THEN Commit(IssueOp(World, c, c, "deleteInput"))
          ELSE Commit(CallRejects(World, c))
    /\ UNCHANGED <<activeTab, mountGen, adapterVars, paramVars, uploadVars>>

\* deleteFile(input) settles; then deleteFile(output) is sent
DeleteInputSettles(c) ==
    /\ c \in calls
    /\ c.pc = "deleteInput"
    /\ LET a == AdapterOfCall(c)
       IN IF InputName \in engines[a][c.inst].fs
          THEN /\ engines' = [engines EXCEPT ![a][c.inst].fs = @ \ {InputName}]
               /\ Commit(IssueOp(World, c, c, "deleteOutput"))
          ELSE /\ UNCHANGED engines
               /\ Commit(CallRejects(World, c))
    /\ UNCHANGED <<activeTab, mountGen, ffmpeg, isLoaded, supportsWebCodecs, inits,
                   paramVars, uploadVars>>

\* deleteFile(output) settles; then processVideo returns its result
DeleteOutputSettles(c) ==
    /\ c \in calls
    /\ c.pc = "deleteOutput"
    /\ LET a == AdapterOfCall(c)
       IN IF OutputName(a) \in engines[a][c.inst].fs
          THEN /\ engines' = [engines EXCEPT ![a][c.inst].fs = @ \ {OutputName(a)}]
               /\ Commit(CallResolves(World, c))
          ELSE /\ UNCHANGED engines
               /\ Commit(CallRejects(World, c))
    /\ UNCHANGED <<activeTab, mountGen, ffmpeg, isLoaded, supportsWebCodecs, inits,
                   paramVars, uploadVars>>

Init ==
    /\ activeTab = "none"
    /\ mountGen = 0
    /\ panel = [none |-> TRUE]
    /\ ffmpeg = [a \in Adapters |-> 0]
    /\ isLoaded = [a \in Adapters |-> FALSE]
    /\ supportsWebCodecs \in BOOLEAN
    /\ engines = [a \in Adapters |-> <<>>]
    /\ inits = {}
    /\ parameters = [videoQuality |-> DefaultQuality]
    /\ nested = DefaultNested
    /\ edits = 0
    /\ jobs = <<>>
    /\ calls = {}
    /\ runs = <<>>
    /\ clock = 0
    /\ refused = {}
    /\ built = NotBuilt
    /\ sampled = NotSampled
    /\ objectUrls = {}

\* steps of the adapters and the engine, common to every specification
EngineNext ==
    \/ \E c \in inits : InitializeResolves(c)
    \/ \E c \in inits : InitializeRejects(c)
    \/ \E c \in calls, ok \in BOOLEAN : ArrayBufferSettles(c, ok)
    \/ \E c \in calls : WriteFileResolves(c)
    \/ \E c \in calls, v \in ProgressValues : ExecProgress(c, v)
    \/ \E c \in calls, ok \in BOOLEAN : ExecSettles(c, ok)
    \/ \E c \in calls : ReadFileSettles(c)
    \/ \E c \in calls : DeleteInputSettles(c)
    \/ \E c \in calls : DeleteOutputSettles(c)

\* the user works in the Enhanced Processing tab, processes one upload there,
\* and may leave the tab for the Single Processing tab and come back
Next ==
    \/ FirstRender
    \/ \E tab \in {"enhanced", "single"} : SelectTab(tab)
    \/ \E f \in Files : activeTab = "enhanced" /\ HandleFileUpload(f)
    \/ activeTab = "enhanced" /\ RemoveFile
    \/ \E typed \in 0..MaxCount : activeTab = "enhanced" /\ SetNumberOfVariations(typed)
    \/ jobs = <<>> /\ EnhancedHandleProcess
    \/ \E k \in 1 .. MaxCount : DownloadResult(k)
    \/ EngineNext

Spec == Init /\ [][Next]_vars

\* the same steps, none of them postponed for ever
SpecLive == Spec /\ WF_vars(Next)

\* the user stays in the Enhanced Processing tab, processes one upload and
\* moves parameter controls
NextParams ==
    \/ FirstRender
    \/ \E f \in Files : HandleFileUpload(f)
    \/ \E typed \in 0 .. MaxCount : SetNumberOfVariations(typed)
    \/ jobs = <<>> /\ EnhancedHandleProcess
    \/ \E v \in QualityValues : QualitySlider(v)
    \/ \E p \in EditedParams : ParameterSwitch(p)
    \/ \E p \in EditedParams, v \in MinValues : MinSlider(p, v)
    \/ EngineNext

SpecParams == Init /\ [][NextParams]_vars

\* the user opens the Batch Processing tab, works with the queue and, between
\* two runs, types numbers of variations
NextBatch ==
    \/ FirstRender
    \/ SelectTab("batch")
    \/ \E typed \in TypedCounts :
           activeTab = "batch" /\ ~panel.processing /\ SetNumberOfVariations(typed)
    \/ \E sel \in Selections : BatchHandleFileUpload(sel)
    \/ activeTab = "batch" /\ \E k \in DOMAIN panel.queue :
           RemoveFromQueue(panel.queue[k].id)
    \/ ClearQueue
    \/ ProcessQueue
    \/ \E r \in DOMAIN runs : BatchTimerTick(r)
    \/ \E r \in DOMAIN runs, ok \in BOOLEAN : BatchMockSettles(r, ok)
    \/ EngineNext

SpecBatch == Init /\ [][NextBatch]_vars

\* the user goes through the tabs from left to right, types numbers of
\* variations, and starts processing in the Single Processing and the Batch
\* Processing tab once the number field holds a typed number.  The user lets
\* a simulated processing of the Single Processing tab end before leaving
\* the tab, and starts a batch run when the tab shows the engine as loaded
\* or when the number typed is below 1
NextShared ==
    \/ FirstRender
    \/ activeTab = "enhanced" /\ SelectTab("single")
    \/ /\ activeTab = "single"
       /\ \A r \in DOMAIN runs : runs[r].pc = "done"
       /\ SelectTab("batch")
    \/ \E f \in Files : HandleFileUpload(f)
    \/ \E typed \in TypedCounts :
           /\ activeTab \in {"single", "batch"}
           /\ ~panel.processing
           /\ SetNumberOfVariations(typed)
    \/ /\ activeTab = "single"
       /\ panel.numberOfVariations <= MaxCount
       /\ SingleHandleProcess
    \/ \E r \in DOMAIN runs : SingleTimerTick(r)
    \/ \E r \in DOMAIN runs, ok \in BOOLEAN : SingleMockSettles(r, ok)
    \/ \E sel \in Selections : BatchHandleFileUpload(sel)
    \/ /\ activeTab = "batch"
       /\ panel.numberOfVariations <= MaxCount
       /\ panel.ffmpegLoaded \/ panel.numberOfVariations < 1
       /\ ProcessQueue
    \/ EngineNext

SpecShared == Init /\ [][NextShared]_vars

(***************************************************************************)
(* The builders as functions of the parameters object.  The parameters     *)
(* object starts as one the controls can produce: a set of enabled         *)
(* parameters, every range at its default or all of them moved by the Min  *)
(* Value and Max Value sliders, the zoom and pixelShift ranges possibly    *)
(* collapsed by them, and a quality of the Base Quality slider.  A builder *)
(* reads the range of an enabled parameter only, so the range of a         *)
(* disabled one stays at its default unless all parameters are disabled.   *)
(* The quality is the default one when a parameter is enabled, and any     *)
(* quality when all are disabled.  A first command is built by either      *)
(* adapter for every start of the random draws; the commands of the next   *)
(* variations are built by the same adapter, the draws having moved on.    *)
(***************************************************************************)
\* the range useState gives the parameter p
DefaultRange(p) == <<DefaultNested[p].min, DefaultNested[p].max>>

\* a range the sliders of the parameter p can make: the Min Value slider
\* goes from 0 to twice the max, the Max Value slider from the min to twice
\* the max, in steps of 0.1 (of 1 for the rotation)
MovedRange(p) ==
    CASE p = "saturation"    -> <<1000, 2500>>
      [] p = "contrast"      -> <<0, 1500>>
      [] p = "brightness"    -> <<0, 100>>
      [] p = "gamma"         -> <<1800, 1300>>
      [] p = "vignette"      -> <<0, 100>>
      [] p = "noise"         -> <<100, 1500>>
      [] p = "waveformShift" -> <<0, 300>>
      [] p = "speed"         -> <<200, 1000>>
      [] p = "volume"        -> <<0, 700>>
      [] p = "rotation"      -> <<0, 3000>>
      [] p = "trim"          -> <<0, 100>>
      [] OTHER               -> DefaultRange(p)

EnabledSets == {S \in SUBSET ParamNames : Cardinality(S) <= MaxEnabled} \cup {ParamNames}
ZoomRanges == {DefaultRange("zoom"), <<0, 0>>}
ShiftRanges == {DefaultRange("pixelShift"), <<100, 100>>, <<100, 1500>>}
\* the Base Quality slider: min 1, max 100, step 1
QualityInputs == 1 .. 100

RangeOf(p, zr, pr, moved) ==
    CASE p = "zoom"       -> zr
      [] p = "pixelShift" -> pr
      [] OTHER            -> IF moved THEN MovedRange(p) ELSE DefaultRange(p)

ParameterSpec(S, zr, pr, moved) ==
    [p \in ParamNames |->
        IF p \in BooleanNames THEN [enabled |-> p \in S]
        ELSE [enabled |-> p \in S, min |-> RangeOf(p, zr, pr, moved)[1],
              max |-> RangeOf(p, zr, pr, moved)[2]]]

InitBuild ==
    /\ activeTab = "none"
    /\ mountGen = 0
    /\ panel = [none |-> TRUE]
    /\ ffmpeg = [a \in Adapters |-> 0]
    /\ isLoaded = [a \in Adapters |-> FALSE]
    /\ supportsWebCodecs = FALSE
    /\ engines = [a \in Adapters |-> <<>>]
    /\ inits = {}
    /\ \E S \in EnabledSets, zr \in ZoomRanges, pr \in ShiftRanges,
          moved \in BOOLEAN :
          /\ "zoom" \in S \/ S = {} \/ zr = DefaultRange("zoom")
          /\ "pixelShift" \in S \/ S = {} \/ pr = DefaultRange("pixelShift")
          /\ moved => S = {} \/ \E p \in S \cap RangedNames :
                                     MovedRange(p) # DefaultRange(p)
          /\ nested = ParameterSpec(S, zr, pr, moved)
    /\ \E q \in QualityInputs : parameters = [videoQuality |-> q]
    /\ \/ parameters.videoQuality = DefaultQuality
       \/ \A p \in ParamNames : ~nested[p].enabled
    /\ edits = 0
    /\ jobs = <<>>
    /\ calls = {}
    /\ runs = <<>>
    /\ clock = 0
    /\ refused = {}
    /\ built = NotBuilt
    /\ sampled = NotSampled
    /\ objectUrls = {}

\* processVideo of the enhanced adapter builds its command
EnhancedBuildCommand(seed) ==
    /\ built' = EnhancedCommand(parameters, nested, seed,
                                BuildFilterChain(nested, seed,
                                    IF IsEnabled(nested["trim"]) THEN 1 ELSE 0))
    /\ UNCHANGED <<activeTab, mountGen, panel, adapterVars, parameters, nested,
                   edits, workVars, uploadVars, sampled>>

\* processVideo of the simple adapter builds its command
SimpleBuildCommand(seed) ==
    /\ built' = SimpleCommand(parameters, nested, seed,
                              BuildFilterString(nested, seed))
    /\ UNCHANGED <<activeTab, mountGen, panel, adapterVars, parameters, nested,
                   edits, workVars, uploadVars, sampled>>

\* where the draws start for the command built after one that started at seed
NextSeed(seed) == (seed + 1) % Len(RandomDraws)

\* the adapter a builds a first command, or the one after a command of its own
MayBuild(a, seed) ==
    \/ built.by = "none"
    \/ built.by = a /\ seed = NextSeed(built.seed)

NextBuild ==
    \/ \E seed \in 0 .. Len(RandomDraws) - 1 :
           MayBuild("enhanced", seed) /\ EnhancedBuildCommand(seed)
    \/ \E seed \in 0 .. Len(RandomDraws) - 1 :
           MayBuild("simple", seed) /\ SimpleBuildCommand(seed)

SpecBuild == InitBuild /\ [][NextBuild]_vars

(***************************************************************************)
(* getRandomValue as a function of the range and of the draw.  The ranges  *)
(* are bounds the parameter defaults and sliders give: 0, 0.5, 1, 1.5, 2,  *)
(* 24, 60, 96, 128 and 1.3 (the number 0x14CCCCCCCCCCCD * 2^-52).  The     *)
(* draws are 0, the smallest and the largest values a 52-bit and a 53-bit  *)
(* Math.random() returns, and 0.5.                                         *)
(***************************************************************************)
OnePointThree == [m |-> <<19661, 6553, 13107, 166>>, e |-> 0 - 52]

SampleBounds ==
    {Num(0, 0), Num(1, 0 - 1), Num(1, 0), Num(3, 0 - 1), Num(2, 0), Num(24, 0),
     Num(60, 0), Num(96, 0), Num(128, 0), OnePointThree}

SampleDraws ==
    {Num(0, 0), Num(1, 0 - Significand), Num(1, 0 - 1),
     BelowOne(Significand - 1), BelowOne(Significand)}

InitSample ==
    /\ activeTab = "none"
    /\ mountGen = 0
    /\ panel = [none |-> TRUE]
    /\ ffmpeg = [a \in Adapters |-> 0]
    /\ isLoaded = [a \in Adapters |-> FALSE]
    /\ supportsWebCodecs = FALSE
    /\ engines = [a \in Adapters |-> <<>>]
    /\ inits = {}
    /\ parameters = [videoQuality |-> DefaultQuality]
    /\ nested = DefaultNested
    /\ edits = 0
    /\ jobs = <<>>
    /\ calls = {}
    /\ runs = <<>>
    /\ clock = 0
    /\ refused = {}
    /\ built = NotBuilt
    /\ objectUrls = {}
    /\ \E mn \in SampleBounds, mx \in SampleBounds :
          /\ ~NumLess(mx, mn)
          /\ sampled = [NotSampled EXCEPT !.min = mn, !.max = mx]

\* this.getRandomValue(min, max) of adapter a, Math.random() returning r
CallGetRandomValue(a, r) ==
    /\ sampled' = [sampled EXCEPT
                      !.by = a, !.r = r,
                      !.v = GetRandomValueNumber(r, sampled.min, sampled.max)]
    /\ UNCHANGED <<activeTab, mountGen, panel, adapterVars, parameters, nested,
                   edits, workVars, uploadVars, built>>

NextSample == \E a \in Adapters, r \in SampleDraws : CallGetRandomValue(a, r)

SpecSample == InitSample /\ [][NextSample]_vars

(***************************************************************************)
(* Properties                                                              *)
(***************************************************************************)
\* an initialize() call on instance k of adapter a has rejected: the instance
\* is not loaded and no initialize() is suspended in its load
InitFailed(a, k) ==
    /\ ~engines[a][k].loaded
    /\ \A c \in inits : ~(c.adapter = a /\ c.inst = k)

\* the result list the mounted single-item panel shows
PanelResults == IF activeTab = "enhanced" THEN panel.results ELSE panel.variations

\* the calls of job j that are suspended
CallsOf(j) == {c \in calls : c.job = j}

\* C1: as long as no initialize() call has failed, an adapter instantiates
\* the engine at most once, however many initialize() calls are made and
\* however they interleave, so the engine reference is never replaced.
C1_EngineInstantiatedOnce ==
    \A a \in Adapters :
        (\A k \in DOMAIN engines[a] : ~InitFailed(a, k)) => Len(engines[a]) <= 1

\* C2: within one generateVariations call the variation indices passed to
\* onProgress never decrease.
C2_ProgressIndexMonotone ==
    \A j \in DOMAIN jobs :
        \A k \in 2..Len(jobs[j].plog) : jobs[j].plog[k - 1] <= jobs[j].plog[k]

\* C6: within one generateVariations call at most one processVideo call is
\* suspended, and it is the call for the variation after the last settled
\* one: variation i+1 is not started before variation i has settled.
C6_NextStartsAfterSettle ==
    \A c \in calls :
        /\ CallsOf(c.job) = {c}
        /\ c.idx = jobs[c.job].i + 1

\* a second variation's call is suspended, the first having resolved
C6_Witness ==
    \E c \in calls : c.idx = 2 /\ Len(jobs[c.job].results) = 1

\* C7: a generateVariations call that returns (every processVideo call
\* resolved) returns exactly count results, the k-th being the result of the
\* k-th processVideo invocation.
C7_ResultsInInvocationOrder ==
    \A j \in DOMAIN jobs :
        jobs[j].state = "returned" =>
            /\ Len(jobs[j].results) = jobs[j].count
            /\ \A k \in DOMAIN jobs[j].results :
                   jobs[j].results[k].job = j /\ jobs[j].results[k].idx = k

\* a job of three variations has returned the three engine outputs
C7_Witness ==
    \E j \in DOMAIN jobs :
        /\ jobs[j].state = "returned"
        /\ jobs[j].count = DefaultVariations
        /\ \A k \in DOMAIN jobs[j].results : jobs[j].results[k].format = "webm"

\* C8: a single-item job one of whose processVideo calls rejected has
\* rejected as a whole, has started no further iteration, and the panel that
\* ran it shows an empty result list for as long as it starts no other job.
C8_FailedJobShowsNoResults ==
    \A j \in DOMAIN jobs :
        (jobs[j].kind \in {"enhanced", "single"} /\ jobs[j].state = "rejected") =>
            /\ CallsOf(j) = {}
            /\ jobs[j].i < jobs[j].count
            /\ (/\ jobs[j].mount = mountGen
                /\ \A j2 \in DOMAIN jobs : j2 > j => jobs[j2].mount # mountGen)
               => PanelResults = <<>>

\* a job failed in a later iteration, with results of earlier iterations in
\* hand, and its panel is still mounted
C8_Witness ==
    \E j \in DOMAIN jobs :
        /\ jobs[j].kind = "enhanced"
        /\ jobs[j].state = "rejected"
        /\ Len(jobs[j].results) >= 1
        /\ jobs[j].mount = mountGen
        /\ ~panel.processing

\* C10: once an initialize() call of the enhanced adapter has rejected, no
\* processVideo call of the enhanced adapter is sent to the engine: every
\* later call is served by a fallback tier.
C10_FailedStaysFallback ==
    (\E k \in DOMAIN engines["enhanced"] : InitFailed("enhanced", k)) =>
        \A c \in calls : AdapterOfCall(c) # "enhanced"

\* C3: an item of the shown queue whose status is completed or error keeps
\* that status for as long as it stays in the queue.
C3_FinalStatusIsFinal ==
    [][(activeTab = "batch" /\ mountGen' = mountGen) =>
          \A k \in DOMAIN panel.queue : \A k2 \in DOMAIN panel'.queue :
              (/\ panel.queue[k].id = panel'.queue[k2].id
               /\ panel.queue[k].status \in {"completed", "error"})
              => panel'.queue[k2].status = panel.queue[k].status]_vars

\* C4: no two processVideo calls of one adapter are suspended in operations
\* of the same engine instance.
C4_OneCallInEngine ==
    \A c \in calls : \A d \in calls :
        (/\ c.inst # 0
         /\ d.inst = c.inst
         /\ AdapterOfCall(c) = AdapterOfCall(d))
        => c = d

\* C5: what a processVideo call reads from the nested parameter objects is
\* what they held when its generateVariations call started.
C5_ParamsReadAsAtStart ==
    \A c \in calls :
        c.read # <<>> =>
            /\ c.read[1].nested = jobs[c.job].specAtStart
            /\ c.read[1].videoQuality = jobs[c.job].params.videoQuality

\* the item the run r of the mounted batch panel is working on
CurrentItem(r) == runs[r].items[runs[r].i]

\* C9: when the run of the mounted batch panel records the failure of an
\* item, that item's status becomes error and nothing else of it changes;
\* every other item is unchanged, except that the run's next item, if there
\* is one, is marked processing with progress 0 because the run goes on to it.
C9_FailureIsolated ==
    [][\A r \in DOMAIN runs :
          (/\ runs[r].mount = mountGen
           /\ runs'[r].outcomes = Append(runs[r].outcomes, "error"))
          => /\ mountGen' = mountGen
             /\ runs'[r].i = runs[r].i + 1
             /\ runs'[r].pc = IF runs'[r].i > Len(runs[r].items) THEN "done"
                              ELSE IF runs[r].loaded THEN "job" ELSE "timer"
             /\ DOMAIN panel'.queue = DOMAIN panel.queue
             /\ \A k \in DOMAIN panel.queue :
                   IF panel.queue[k].id = CurrentItem(r).id
                   THEN panel'.queue[k] = [panel.queue[k] EXCEPT !.status = "error"]
                   ELSE IF /\ runs'[r].i <= Len(runs[r].items)
                           /\ panel.queue[k].id = runs[r].items[runs'[r].i].id
                   THEN panel'.queue[k] = [panel.queue[k] EXCEPT
                                              !.status = "processing",
                                              !.progress = <<0, 1>>]
                   ELSE panel'.queue[k] = panel.queue[k]]_vars

\* a run whose first item failed has gone on to complete its second item
C9_Witness ==
    \E r \in DOMAIN runs :
        /\ runs[r].kind = "batch"
        /\ runs[r].mount = mountGen
        /\ runs[r].outcomes = <<"error", "completed">>
        /\ panel.queue[1].status = "error"
        /\ panel.queue[2].status = "completed"

\* C11: initialize() is idempotent once the adapter is ready.  A panel mount
\* calls initialize() on its adapter; when the adapter is loaded at that
\* moment the call creates no engine instance, suspends in no load, and
\* leaves this.ffmpeg and this.isLoaded as they were.
C11_InitializeIdempotentWhenReady ==
    [][(/\ mountGen' = mountGen + 1
        /\ isLoaded[AdapterOf(activeTab')])
       => /\ engines' = engines
          /\ inits' = inits
          /\ ffmpeg' = ffmpeg
          /\ isLoaded' = isLoaded]_vars

\* the Enhanced panel was mounted a second time after its adapter had become
\* ready: the adapter still has the one engine instance of the first mount
C11_Witness ==
    /\ mountGen = 3
    /\ activeTab = "enhanced"
    /\ isLoaded["enhanced"]
    /\ Len(engines["enhanced"]) = 1
    /\ \A c \in inits : c.adapter # "enhanced"

\* an initialize() of adapter a has completed successfully: the engine
\* instance it created finished loading
InitializeSucceeded(a) == \E k \in DOMAIN engines[a] : engines[a][k].loaded

\* C12: the capability set is a function of the adapter state.  canvas is
\* always true, webcodecs is the detection result of the constructor, and the
\* full-engine flag is true exactly when an earlier initialize() of the
\* enhanced adapter completed successfully: it is false before any attempt,
\* while a load is pending and after a failure.
C12_CapabilitiesFollowAdapterState ==
    /\ Capabilities.canvas
    /\ Capabilities.webcodecs = supportsWebCodecs
    /\ Capabilities.ffmpeg <=> InitializeSucceeded("enhanced")

\* the full-engine flag is reported true after the second initialize() of
\* the enhanced adapter succeeded, the first one having failed
C12_Witness ==
    /\ Capabilities.ffmpeg
    /\ Len(engines["enhanced"]) = 2
    /\ ~engines["enhanced"][1].loaded
    /\ inits = {}

\* the marker of the fallback tier the enhanced adapter uses
FallbackMarker == IF supportsWebCodecs THEN "webcodecs-fallback" ELSE "canvas-fallback"

\* C13: while the full engine is not ready, processVideo of the enhanced
\* adapter is a pass-through.  A generateVariations call started in that
\* state returns within the same task with one result per requested
\* variation, each with appliedFilters being just the marker of the tier
\* used and with the byte size of the input, whatever the parameters are;
\* the panel shows exactly these results.
C13_FallbackIsPassThrough ==
    [][\A j \in DOMAIN jobs' :
          (/\ j \notin DOMAIN jobs
           /\ jobs'[j].kind = "enhanced"
           /\ ~isLoaded["enhanced"])
          => /\ jobs'[j].state = "returned"
             /\ Len(jobs'[j].results) = jobs'[j].count
             /\ \A k \in DOMAIN jobs'[j].results :
                   /\ jobs'[j].results[k].applied_filters = <<FallbackMarker>>
                   /\ jobs'[j].results[k].size = FileSize(jobs'[j].file)
             /\ panel'.results = jobs'[j].results]_vars

\* one variation was generated on the canvas tier, with saturation enabled
\* and the quality moved: the job has exactly one pass-through result
C13_Witness ==
    /\ ~isLoaded["enhanced"]
    /\ ~supportsWebCodecs
    /\ \E j \in DOMAIN jobs :
          /\ jobs[j].kind = "enhanced"
          /\ jobs[j].count = 1
          /\ jobs[j].specAtStart["saturation"].enabled
          /\ jobs[j].params.videoQuality # DefaultQuality
          /\ Len(jobs[j].results) = 1
          /\ jobs[j].results[1].applied_filters = <<"canvas-fallback">>
          /\ jobs[j].results[1].size = FileSize(jobs[j].file)
          /\ panel.results = jobs[j].results

\* the kind of directive an audit string is about
DirectiveKindOf(audit) ==
    CASE audit.kind \in {"saturation", "contrast", "brightness", "gamma"} -> "eq"
      [] audit.kind = "zoom"          -> "scale"
      [] audit.kind = "pixelShift"    -> "crop"
      [] audit.kind = "waveformShift" -> "geq"
      [] audit.kind = "randomSize"    -> "scale"
      [] audit.kind = "speed"         -> "setpts"
      [] OTHER                        -> audit.kind

AllDisabled == \A p \in ParamNames : ~nested[p].enabled
ColorEnabled == \E k \in DOMAIN ColorNames : nested[ColorNames[k]].enabled
EqPositions == {i \in DOMAIN built.filters : built.filters[i].kind = "eq"}
IsZoomScale(d) == d.kind = "scale" /\ Len(d.args) = 4

\* C14: the directive list and the appliedFilters list returned by
\* buildFilterChain are index-correlated: they have the same length and the
\* i-th audit string is about the i-th directive.
C14_ListsIndexCorrelated ==
    built.by = "enhanced"
    => /\ Len(built.applied) = Len(built.filters)
       /\ \A i \in DOMAIN built.applied :
             built.filters[i].kind = DirectiveKindOf(built.applied[i])

\* C15: a builder never emits a crop directive, nor a pixelShift audit
\* string, whose pixel delta is 0.
C15_NoZeroPixelCrop ==
    built.by # "none"
    => /\ \A i \in DOMAIN built.filters :
             built.filters[i].kind = "crop" => built.filters[i].args[1] > 0
       /\ \A i \in DOMAIN built.applied :
             built.applied[i].kind = "pixelShift" => built.applied[i].args[1] > 0

\* C16: with zoom enabled and min = max = 0 neither builder emits a zoom
\* scale directive.
C16_NoScaleForZeroZoom ==
    (/\ built.by # "none"
     /\ nested["zoom"].enabled
     /\ nested["zoom"].min = 0
     /\ nested["zoom"].max = 0)
    => \A i \in DOMAIN built.filters : ~IsZoomScale(built.filters[i])

\* the place of a directive in the fixed order of the builder
Rank(d) ==
    CASE d.kind = "eq"       -> 1
      [] d.kind = "noise"    -> 2
      [] d.kind = "rotate"   -> 3
      [] d.kind = "hflip"    -> 4
      [] IsZoomScale(d)      -> 5
      [] d.kind = "crop"     -> 6
      [] d.kind = "vignette" -> 7
      [] d.kind = "geq"      -> 8
      [] d.kind = "scale"    -> 9
      [] d.kind = "setpts"   -> 10
      [] OTHER               -> 11

\* C17: the directives of buildFilterChain appear in the order color-adjust,
\* noise, rotate, horizontal flip, zoom scale, pixel-shift crop, vignette,
\* waveform shift, random-aspect resize, speed retime, frame-rate retime:
\* no directive precedes one that comes earlier in this order.
C17_DirectivesInFixedOrder ==
    built.by = "enhanced"
    => \A i, j \in DOMAIN built.filters :
          i < j => Rank(built.filters[i]) <= Rank(built.filters[j])

\* a chain with every parameter enabled in which all eleven directives fired
C17_Witness ==
    /\ built.by = "enhanced"
    /\ \A p \in ParamNames : nested[p].enabled
    /\ {Rank(built.filters[i]) : i \in DOMAIN built.filters} = 1 .. 11

\* C18: the filter chain holds exactly one color-adjust (eq) directive, in
\* first place, if one of saturation, contrast, brightness, gamma is enabled,
\* and none otherwise.
C18_OneEqDirectiveFirst ==
    built.by # "none"
    => IF ColorEnabled THEN EqPositions = {1} ELSE EqPositions = {}

\* C19: with every parameter disabled the builders return an empty directive
\* list and an empty appliedFilters list, whatever the ranges and the quality.
C19_AllDisabledBuildsNothing ==
    (built.by # "none" /\ AllDisabled)
    => /\ built.filters = <<>>
       /\ built.applied = <<>>
       /\ built.reported = <<>>

\* the enhanced builder ran on an all-disabled object whose zoom range was
\* collapsed to 0 and whose quality is 1
C19_Witness ==
    /\ built.by = "enhanced"
    /\ AllDisabled
    /\ nested["zoom"].max = 0
    /\ parameters.videoQuality = 1
    /\ built.filters = <<>>
    /\ built.applied = <<>>

\* C20: the compression level computed for the quality lies in 0..51, and no
\* higher quality of the slider gives a higher level, no lower quality a
\* lower one.
C20_CrfInRangeAndMonotone ==
    built.by # "none"
    => /\ built.crf \in 0 .. CrfMax
       /\ \A q \in QualityInputs :
             /\ q >= parameters.videoQuality => Crf(q) <= built.crf
             /\ q <= parameters.videoQuality => Crf(q) >= built.crf

\* a command built for quality 100 has compression level 0
C20_Witness ==
    /\ built.by = "simple"
    /\ parameters.videoQuality = 100
    /\ built.crf = 0

\* C21 as stated: the command built for quality 100 has compression level 0,
\* the one for quality 1 level 50 and the one for quality 80 level 10.
C21_QualityExamplesAsStated ==
    built.by # "none"
    => /\ parameters.videoQuality = 100 => built.crf = 0
       /\ parameters.videoQuality = 1 => built.crf = 50
       /\ parameters.videoQuality = 80 => built.crf = 10

\* C21 amended: the command built for quality 100 has compression level 0,
\* the one for quality 1 level 51 (floor(0.51) = 0) and the one for quality
\* 80 level 11 (floor(40.8) = 40).
C21_QualityExamples ==
    built.by # "none"
    => /\ parameters.videoQuality = 100 => built.crf = 0
       /\ parameters.videoQuality = 1 => built.crf = 51
       /\ parameters.videoQuality = 80 => built.crf = 11

\* the enhanced adapter built a command for quality 1 and one for quality 80
C21_Witness ==
    /\ built.by = "enhanced"
    /\ \/ parameters.videoQuality = 1 /\ built.crf = 51
       \/ parameters.videoQuality = 80 /\ built.crf = 11 /\ built.filters # <<>>

\* C22: for a range with min <= max the value getRandomValue returns is not
\* below min, is min when min = max, and is below max when min < max.
C22_SampleInHalfOpenRange ==
    sampled.by # "none"
    => /\ ~NumLess(sampled.v, sampled.min)
       /\ sampled.min = sampled.max => sampled.v = sampled.min
       /\ NumLess(sampled.min, sampled.max) => NumLess(sampled.v, sampled.max)

\* the positions of the shown queue whose item is not in the queue after the
\* step
RemovedPositions ==
    {k \in DOMAIN panel.queue :
        \A j \in DOMAIN panel'.queue : panel'.queue[j].id # panel.queue[k].id}

\* C23: an individual item is removed from the queue only while it is
\* pending and the panel is not processing.  A step of removeFromQueue, on
\* whichever item and also on the last one of the queue, takes out a pending
\* item while the processing flag is off; and a step of the batch panel that
\* takes items out of the queue and leaves others in it (a queue-clear leaves
\* none) takes out pending items only, the processing flag being off.
C23_OnlyPendingItemsRemoved ==
    [][/\ activeTab = "batch"
          => \A k \in DOMAIN panel.queue :
                RemoveFromQueue(panel.queue[k].id)
                => /\ ~panel.processing
                   /\ panel.queue[k].status = "pending"
                   /\ RemovedPositions = {k}
       /\ (/\ activeTab = "batch"
           /\ mountGen' = mountGen
           /\ RemovedPositions # {}
           /\ panel'.queue # <<>>)
          => /\ ~panel.processing
             /\ \A k \in RemovedPositions : panel.queue[k].status = "pending"]_vars

\* the second uploaded item was removed on its own: the first one, already
\* completed, is still in the queue
C23_Witness ==
    /\ activeTab = "batch"
    /\ clock = 2
    /\ Len(panel.queue) = 1
    /\ panel.queue[1].id[1] = 0
    /\ panel.queue[1].status = "completed"

\* C24: a selected file whose MIME type does not begin with 'video/' is
\* rejected and changes nothing: the step in which a panel answers a
\* selection with its invalid-file notification leaves the uploaded file, the
\* result list, the queue and everything else as they were.  So every
\* uploaded file, every queue item and every file given to the adapters is a
\* video file (of a selection of several files the batch panel takes the
\* video files only).
C24_OnlyVideoFilesAccepted ==
    /\ [](/\ (activeTab \in {"enhanced", "single"} /\ panel.uploadedFile # "")
             => FileType(panel.uploadedFile)[1] = "video"
          /\ activeTab = "batch"
             => \A k \in DOMAIN panel.queue :
                   FileType(panel.queue[k].file)[1] = "video"
          /\ \A j \in DOMAIN jobs : FileType(jobs[j].file)[1] = "video")
    /\ [][refused' # refused
            => /\ refused' = refused \cup {activeTab}
               /\ UNCHANGED <<activeTab, mountGen, panel, adapterVars, paramVars,
                              workVars, clock>>]_vars

\* each of the three panels has refused a text file, and two uploads of a
\* video to the batch queue have been accepted
C24_Witness ==
    /\ activeTab = "batch"
    /\ refused = Tabs
    /\ clock = 2
    /\ Len(panel.queue) = 2
    /\ \A k \in DOMAIN panel.queue : panel.queue[k].file = "a.mp4"

\* C25: once a full-engine processVideo call has ended, resolved or
\* rejected, the files it wrote are gone: an engine instance that no
\* suspended call is working on has an empty file system.
C25_NoWorkingFilesAfterCall ==
    \A a \in Adapters : \A k \in DOMAIN engines[a] :
        (\A c \in calls : ~(AdapterOfCall(c) = a /\ c.inst = k))
        => engines[a][k].fs = {}

\* the object URLs processVideo can make within the bounds
PossibleObjectUrls ==
    {[job |-> j, idx |-> i] : j \in 1 .. MaxJobs, i \in 0 .. MaxCount}

\* C26: every object URL made for the output of a ProcessingResult is
\* eventually revoked (after the download or at cleanup), so none stays live
\* for ever
C26_ObjectUrlsEventuallyRevoked ==
    \A u \in PossibleObjectUrls : (u \in objectUrls) ~> (u \notin objectUrls)

\* the positions of the option in the argument list last built
OptionPositions(option) ==
    {i \in DOMAIN built.args : SameString(built.args[i], Word(option))}

\* C27: in the simple adapter's command, when speed is enabled the setpts
\* directive is the last element of the single -vf filter graph, after the
\* spatial filters if there are any, and -crf is still immediately followed
\* by the compression level
C27_SpeedJoinsFilterGraph ==
    (built.by = "simple" /\ nested["speed"].enabled) =>
        /\ Cardinality(OptionPositions("-vf")) = 1
        /\ \A i \in OptionPositions("-vf") :
              /\ i < Len(built.args)
              /\ LET graph == built.args[i + 1]
                 IN /\ Len(graph) = Len(built.filters) + 1
                    /\ SameString(SubSeq(graph, 1, Len(graph) - 1), built.filters)
                    /\ graph[Len(graph)].kind = "setpts"
        /\ \E i \in OptionPositions("-crf") :
              /\ i < Len(built.args)
              /\ SameString(built.args[i + 1], NumberText(built.crf))

\* the values the audits of parameter p show in the command b, and the
\* argument tuples of the directives of that kind
AuditedValues(b, p) ==
    {b.applied[i].args : i \in {k \in DOMAIN b.applied : b.applied[k].kind = p}}
DirectiveArgs(b, kind) ==
    {b.filters[i].args : i \in {k \in DOMAIN b.filters : b.filters[k].kind = kind}}

\* C28: every directive of the enhanced builder encodes the value sampled for
\* its parameter, vignette included: two commands built from the same
\* parameters whose vignette audits show different values carry different
\* vignette directives
C28_VignetteDirectiveEncodesValue ==
    [][(/\ built.by = "enhanced"
        /\ built'.by = "enhanced"
        /\ AuditedValues(built, "vignette") # {}
        /\ AuditedValues(built', "vignette") # {}
        /\ AuditedValues(built, "vignette") # AuditedValues(built', "vignette"))
       => DirectiveArgs(built, "vignette") # DirectiveArgs(built', "vignette")]_vars

\* the batch runs that finish in this step with their panel still mounted
FinishingRuns ==
    {r \in DOMAIN runs' :
        /\ runs'[r].kind = "batch"
        /\ runs'[r].pc = "done"
        /\ runs'[r].mount = mountGen'
        /\ (r \in DOMAIN runs => runs[r].pc # "done")}

\* C29: when a batch run finishes, its notification reports as X the number
\* of queue items whose status is completed at that moment and as N the
\* number of items the run processed
C29_ReportCountsCompletedItems ==
    [][\A r \in FinishingRuns :
          /\ runs'[r].report.x = CountCompleted(panel'.queue)
          /\ runs'[r].report.n = Len(runs'[r].outcomes)]_vars

\* the batch runs started in this step
StartingRuns == {r \in DOMAIN runs' \ DOMAIN runs : runs'[r].kind = "batch"}

\* the batch runs in progress after this step, their panel still mounted
ProgressingRuns ==
    {r \in DOMAIN runs' :
        /\ runs'[r].kind = "batch"
        /\ runs'[r].pc # "done"
        /\ runs'[r].mount = mountGen'}

\* the shown queue q begins with the items of the run, and what was added
\* behind them is pending with progress 0
AddedItemsUntouched(q, items) ==
    /\ Len(q) >= Len(items)
    /\ \A k \in DOMAIN items : q[k].id = items[k].id
    /\ \A k \in Len(items) + 1 .. Len(q) :
          q[k].status = "pending" /\ q[k].progress = <<0, 1>>

\* C30: a batch run processes exactly the items that were in the queue when
\* it was started, one after the other in queue order; files added to the
\* queue during the run are not processed by it and are still pending with
\* progress 0 when the processing flag returns to false
C30_RunProcessesQueueAtStart ==
    [][/\ \A r \in StartingRuns : runs'[r].items = panel.queue
       /\ \A r \in ProgressingRuns :
             /\ panel'.processing
             /\ AddedItemsUntouched(panel'.queue, runs'[r].items)
             /\ \A k \in DOMAIN runs'[r].items :
                   /\ k < runs'[r].i
                        => panel'.queue[k].status \in {"completed", "error"}
                   /\ k = runs'[r].i => panel'.queue[k].status = "processing"
                   /\ k > runs'[r].i => panel'.queue[k] = runs'[r].items[k]
       /\ \A r \in FinishingRuns :
             /\ ~panel'.processing
             /\ Len(runs'[r].outcomes) = Len(runs'[r].items)
             /\ AddedItemsUntouched(panel'.queue, runs'[r].items)
             /\ \A k \in DOMAIN runs'[r].items :
                   panel'.queue[k].status = runs'[r].outcomes[k]]_vars

\* a run over one item is at work on it, and a file uploaded meanwhile is
\* behind it in the queue, pending
C30_Witness ==
    /\ activeTab = "batch"
    /\ panel.processing
    /\ Len(runs) = 1
    /\ runs[1].pc # "done"
    /\ Len(runs[1].items) = 1
    /\ Len(panel.queue) = 2
    /\ panel.queue[1].status = "processing"
    /\ panel.queue[2].status = "pending"
    /\ panel.queue[2].progress = <<0, 1>>

====
